---- MODULE Spec2Model ----
(***************************************************************************)
(* Model of the hybrid medical NER pipeline of                             *)
(* src/src/pipelines/medical_ner_pipeline.py: the UMLS terminology client  *)
(* (cache, ticket-granting credential, single-use service tickets) and the *)
(* document pipeline built on it.                                          *)
(*                                                                         *)
(* Conventions.  Python strings are TLA+ strings, read character by        *)
(* character with SubSeq.  Confidences are integers in thousandths         *)
(* (0.95 is 950); a product of two confidences is in millionths.  Time is  *)
(* time.time() in whole seconds.  Python's None is the string None for     *)
(* optional strings and NoUrl for the ticket-granting URL.                 *)
(***************************************************************************)
EXTENDS Integers, Sequences, FiniteSets, TLC

(* ------------------------------------------------------------------ *)
(* Bounds of the model                                                  *)
(* ------------------------------------------------------------------ *)

\* lookup_term calls in one behaviour of the client specification
MaxCalls == 2

\* clock advances in one behaviour of the client specification
MaxTicks == 2

\* process_document calls in one behaviour of the pipeline specification
MaxDocs == 1

\* _get_tgt_url calls of one thread in one behaviour of the concurrent
\* specification
MaxThreadCalls == 2

(* ------------------------------------------------------------------ *)
(* Strings                                                              *)
(* ------------------------------------------------------------------ *)

None == "None"

Char(s, i) == SubSeq(s, i, i)

UpperAlpha == "ABCDEFGHIJKLMNOPQRSTUVWXYZ"

LowerAlpha == "abcdefghijklmnopqrstuvwxyz"

Digits == "0123456789"

CharsOf(alphabet) == {Char(alphabet, i) : i \in 1..Len(alphabet)}

UpperChars == CharsOf(UpperAlpha)

AlphaChars == CharsOf(UpperAlpha) \cup CharsOf(LowerAlpha)

DigitChars == CharsOf(Digits)

\* \w of the regular expressions
WordChars == AlphaChars \cup DigitChars \cup {"_"}

IsSpace(ch) == ch = " "

IsDigit(ch) == ch \in DigitChars

IsAlpha(ch) == ch \in AlphaChars

IsWordChar(ch) == ch \in WordChars

\* the lower-case letter of each upper-case letter
LowerOfUpper ==
    [ch \in UpperChars |->
        Char(LowerAlpha, CHOOSE i \in 1..Len(UpperAlpha) : Char(UpperAlpha, i) = ch)]

LowerChar(ch) == IF ch \in UpperChars THEN LowerOfUpper[ch] ELSE ch

RECURSIVE LowerFrom(_, _)
LowerFrom(s, i) ==
    IF i > Len(s) THEN "" ELSE LowerChar(Char(s, i)) \o LowerFrom(s, i + 1)

\* str.lower()
Lower(s) == LowerFrom(s, 1)

\* str.strip()
Strip(s) ==
    LET idx == {i \in 1..Len(s) : ~IsSpace(Char(s, i))}
    IN  IF idx = {} THEN ""
        ELSE SubSeq(s, CHOOSE i \in idx : \A j \in idx : i <= j,
                       CHOOSE i \in idx : \A j \in idx : j <= i)

\* needle in hay
Contains(hay, needle) ==
    \E i \in 1..(Len(hay) - Len(needle) + 1) :
        SubSeq(hay, i, i + Len(needle) - 1) = needle

\* set(str.split()): the whitespace-delimited words of s
Words(s) ==
    LET starts == {i \in 1..Len(s) :
                      ~IsSpace(Char(s, i)) /\ (i = 1 \/ IsSpace(Char(s, i - 1)))}
        ends   == {j \in 1..Len(s) :
                      ~IsSpace(Char(s, j)) /\ (j = Len(s) \/ IsSpace(Char(s, j + 1)))}
    IN  {SubSeq(s, i, CHOOSE j \in ends : j >= i /\ \A k \in ends : k >= i => j <= k) :
            i \in starts}

\* round(num / den) to the nearest integer, ties to even
RoundDiv(num, den) ==
    LET q == num \div den
        r == num % den
    IN  IF 2 * r < den THEN q
        ELSE IF 2 * r > den THEN q + 1
        ELSE IF q % 2 = 0 THEN q ELSE q + 1

(* ------------------------------------------------------------------ *)
(* UMLSClient: constants and the remote service's answers               *)
(* ------------------------------------------------------------------ *)

\* self.tgt_url = None
NoUrl == 0

\* no service ticket (None, or the empty body of a 200 answer)
NoTicket == 0

\* "Cache TGT for 8 hours"
TgtLifetime == 8 * 3600

\* the literal 30 * 24 * 3600 of _get_cached_result
CacheTtl == 30 * 24 * 3600

\* _get_cached_result returning None
NoRow == [present |-> FALSE]

UnknownResult(conf, meta) ==
    [entity_type |-> "UNKNOWN", umls_code |-> None, confidence |-> conf, metadata |-> meta]

NoKeyResult == UnknownResult(0, [error |-> "No API key"])

NoResultsResult == UnknownResult(300, [umls_search |-> "no_results"])

ErrorResult == UnknownResult(0, [error |-> "exception"])

\* lookup_term returned nothing: an exception left it
Raised == [exception |-> "sqlite3.Error"]

\* What the terminology service may answer to one lookup: the ranked results
\* of the exact and of the approximate search, and the semantic type URIs of
\* the concept detail.
ExactHitResponse ==
    [exact  |-> << [ui |-> "C0004057", name |-> "Aspirin"] >>,
     approx |-> << >>,
     uris   |-> << "sn/TUI/T121", "sn/attr", "sn/TUI/T109" >>]

ApproxHitResponse ==
    [exact  |-> << >>,
     approx |-> << [ui |-> "C0427008", name |-> "Stiffness of neck"] >>,
     uris   |-> << "sn/TUI/T184" >>]

EmptyResponse == [exact |-> << >>, approx |-> << >>, uris |-> << >>]

\* the service's way of saying "nothing found": one result that is no concept
NoneResponse ==
    [exact  |-> << [ui |-> "NONE", name |-> "NO RESULTS"] >>,
     approx |-> << >>,
     uris   |-> << >>]

Responses == {ExactHitResponse, ApproxHitResponse, EmptyResponse, NoneResponse}

\* outbound requests one lookup_term call can send: 1 API-key exchange,
\* 3 ticket exchanges, 2 searches, 1 concept detail
MaxRequests == 1 + 3 + 2 + 1

\* The faults of one call: the number of the outbound request that fails
\* (0: none), how it fails, what the service answers otherwise, and whether
\* the cache SELECT / INSERT raises.  failKind "error" is a status other than
\* the expected one or an exception of requests (timeout, connection error);
\* "nolocation" is a 201 answer to the API-key exchange without a location
\* header; "silent" is the service never answering the request.
Env(failAt, failKind, kb, readFail, writeFail) ==
    [failAt |-> failAt, failKind |-> failKind, kb |-> kb,
     readFail |-> readFail, writeFail |-> writeFail]

\* no fault, nothing found
QuietEnv == Env(0, "error", EmptyResponse, FALSE, FALSE)

\* the SELECT raises: the call reads nothing else
ReadFailEnv == Env(0, "error", EmptyResponse, TRUE, FALSE)

\* The faults of a call that goes to the network.  The API-key exchange can
\* only be the first request of a call, and a call whose first or second
\* request fails never reads a search answer.
NetEnvs(writeFails) ==
    {Env(0, "error", kb, FALSE, w) : kb \in Responses, w \in writeFails}
    \cup {Env(k, "error", EmptyResponse, FALSE, w) : k \in 1..2, w \in writeFails}
    \cup {Env(1, "nolocation", EmptyResponse, FALSE, w) : w \in writeFails}
    \cup {Env(k, "error", kb, FALSE, w) : k \in 3..MaxRequests, kb \in Responses, w \in writeFails}
    \cup {Env(k, "silent", EmptyResponse, FALSE, FALSE) : k \in 1..2}
    \cup {Env(k, "silent", kb, FALSE, FALSE) :
             k \in 3..MaxRequests, kb \in {EmptyResponse, ExactHitResponse}}

Envs == NetEnvs(BOOLEAN) \cup {ReadFailEnv}

(* ------------------------------------------------------------------ *)
(* UMLSClient: operators on a client state c =                          *)
(*   [tgt_url, tgt_expiry, cache, tgtSeq, stSeq, wire]                  *)
(* wire is the list of requests the running call has sent, each with    *)
(* the credential it carries and what it got: the TGT or ticket granted *)
(* (0: none); for a search, 1 + the number of results (0: it failed);   *)
(* for a concept detail, 1 (0: it failed)                               *)
(* ------------------------------------------------------------------ *)

\* a request sent without timeout=
NoTimeout == 0

\* the timeout= of the request of each kind, in seconds
RequestTimeout(kind) ==
    CASE kind = "auth" -> NoTimeout
      [] kind = "ticket" -> NoTimeout
      [] kind = "search_exact" -> 15
      [] kind = "search_approx" -> 15
      [] kind = "detail" -> 10

\* the next outbound request is the one that fails (a request the service
\* never answers fails when its timeout ends)
Fails(c, e) == Len(c.wire) + 1 = e.failAt

Sent(c, kind, cred, got) ==
    [c EXCEPT !.wire = Append(@, [kind |-> kind, cred |-> cred, got |-> got])]

\* _get_cached_result returning the row whatever its age
SelectLive_AnyAge(cache, key, clock) ==
    IF key \in DOMAIN cache
    THEN [present |-> TRUE, result |-> cache[key].result]
    ELSE NoRow

\* the SELECT of _get_cached_result for the stored key, and its TTL test
SelectLive(cache, key, now) ==
    IF key \in DOMAIN cache /\ now - cache[key].timestamp < CacheTtl
    THEN [present |-> TRUE, result |-> cache[key].result]
    ELSE NoRow

\* UMLSClient._get_cached_result, the SELECT answering: cache maps the
\* lower-cased, stripped terms that have a row to [result, timestamp]
GetCachedResult(cache, use, term, now) ==
    IF ~use THEN NoRow
    ELSE (LET key == Lower(Strip(term))
     IN  SelectLive(cache, key, now))

\* an INSERT that leaves the row of a key that has one (INSERT OR IGNORE)
Upsert_KeepFirst(cache, key, result, clock) ==
    [k \in DOMAIN cache \cup {key} |->
        IF k \in DOMAIN cache THEN cache[k] ELSE [result |-> result, timestamp |-> clock]]

\* the INSERT OR REPLACE of _cache_result for the stored key
Upsert(cache, key, result, now) ==
    [k \in DOMAIN cache \cup {key} |->
        IF k = key THEN [result |-> result, timestamp |-> now] ELSE cache[k]]

\* _cache_result storing the row under the term as given
CacheResult_RawKey(cache, use, term, result, clock) ==
    IF ~use THEN cache ELSE Upsert(cache, term, result, clock)

\* UMLSClient._cache_result, the INSERT OR REPLACE succeeding
CacheResult(cache, use, term, result, now) ==
    IF ~use THEN cache
    ELSE (LET key == Lower(Strip(term))
     IN  Upsert(cache, key, result, now))

\* _get_tgt_url exchanging the API key on every call
GetTgtUrl_AlwaysAuth(c, e, clock) ==
    IF Fails(c, e)
    THEN [c |-> Sent(c, "auth", 0, 0), url |-> NoUrl]
    ELSE [c |-> [Sent(c, "auth", 0, c.tgtSeq + 1) EXCEPT
                   !.tgt_url = c.tgtSeq + 1,
                   !.tgt_expiry = clock + TgtLifetime,
                   !.tgtSeq = c.tgtSeq + 1],
          url |-> c.tgtSeq + 1]

\* UMLSClient._get_tgt_url
GetTgtUrl(c, e, now) ==
    IF c.tgt_url # NoUrl /\ now < c.tgt_expiry
    THEN [c |-> c, url |-> c.tgt_url]
    ELSE IF Fails(c, e)
         THEN IF e.failKind = "nolocation"
              THEN [c |-> [Sent(c, "auth", 0, 0) EXCEPT !.tgt_url = NoUrl], url |-> NoUrl]
              ELSE [c |-> Sent(c, "auth", 0, 0), url |-> NoUrl]
         ELSE [c |-> [Sent(c, "auth", 0, c.tgtSeq + 1) EXCEPT
                        !.tgt_url = c.tgtSeq + 1,
                        !.tgt_expiry = now + TgtLifetime,
                        !.tgtSeq = c.tgtSeq + 1],
               url |-> c.tgtSeq + 1]

\* _get_fresh_service_ticket once _get_tgt_url has returned t
ExchangeTicket(t, e) ==
    IF t.url = NoUrl THEN [c |-> t.c, ticket |-> NoTicket]
    ELSE IF Fails(t.c, e)
    THEN [c |-> Sent(t.c, "ticket", t.url, NoTicket), ticket |-> NoTicket]
    ELSE [c |-> [Sent(t.c, "ticket", t.url, t.c.stSeq + 1) EXCEPT !.stSeq = t.c.stSeq + 1],
          ticket |-> t.c.stSeq + 1]

\* UMLSClient._get_fresh_service_ticket
GetFreshServiceTicket(c, e, now) ==
    (LET t == GetTgtUrl(c, e, now)
     IN  ExchangeTicket(t, e))

\* the approximate search of _search_umls_concept, with the ticket exchange t2
SearchApproximate(t2, e) ==
    IF t2.ticket = NoTicket THEN [c |-> t2.c, results |-> << >>]
    ELSE IF Fails(t2.c, e)
    THEN [c |-> Sent(t2.c, "search_approx", t2.ticket, 0), results |-> << >>]
    ELSE [c |-> Sent(t2.c, "search_approx", t2.ticket, 1 + Len(e.kb.approx)),
          results |-> e.kb.approx]

\* _search_umls_concept sending the approximate search with the ticket of
\* the exact search
SearchExact_SameTicket(t1, e, clock) ==
    IF t1.ticket = NoTicket THEN [c |-> t1.c, results |-> << >>]
    ELSE IF Fails(t1.c, e)
    THEN [c |-> Sent(t1.c, "search_exact", t1.ticket, 0), results |-> << >>]
    ELSE IF e.kb.exact # << >>
    THEN [c |-> Sent(t1.c, "search_exact", t1.ticket, 1 + Len(e.kb.exact)),
          results |-> e.kb.exact]
    ELSE SearchApproximate([c |-> Sent(t1.c, "search_exact", t1.ticket, 1),
                            ticket |-> t1.ticket], e)

\* _search_umls_concept trying the approximate search when the exact search
\* has failed
SearchExact_ApproxOnFailure(t1, e, clock) ==
    IF t1.ticket = NoTicket THEN [c |-> t1.c, results |-> << >>]
    ELSE IF Fails(t1.c, e)
    THEN (LET t2 == GetFreshServiceTicket(Sent(t1.c, "search_exact", t1.ticket, 0), e, clock)
          IN  SearchApproximate(t2, e))
    ELSE IF e.kb.exact # << >>
    THEN [c |-> Sent(t1.c, "search_exact", t1.ticket, 1 + Len(e.kb.exact)),
          results |-> e.kb.exact]
    ELSE (LET t2 == GetFreshServiceTicket(Sent(t1.c, "search_exact", t1.ticket, 1), e, clock)
          IN  SearchApproximate(t2, e))

\* the exact search of _search_umls_concept, with the ticket exchange t1
SearchExact(t1, e, now) ==
    IF t1.ticket = NoTicket THEN [c |-> t1.c, results |-> << >>]
    ELSE IF Fails(t1.c, e)
    THEN [c |-> Sent(t1.c, "search_exact", t1.ticket, 0), results |-> << >>]
    ELSE IF e.kb.exact # << >>
    THEN [c |-> Sent(t1.c, "search_exact", t1.ticket, 1 + Len(e.kb.exact)),
          results |-> e.kb.exact]
    ELSE (LET t2 == GetFreshServiceTicket(Sent(t1.c, "search_exact", t1.ticket, 1), e, now)
     IN  SearchApproximate(t2, e))

\* UMLSClient._search_umls_concept
SearchUmlsConcept(c, e, now) ==
    (LET t1 == GetFreshServiceTicket(c, e, now)
     IN  SearchExact(t1, e, now))

\* cui.startswith('C') and len(cui) == 8
LooksLikeCui(cui) == Len(cui) = 8 /\ Char(cui, 1) = "C"

\* _get_concept_details with the ticket exchange t: ok is the truth value of
\* the returned dict, uris the 'uri' of each of its semanticTypes
FetchDetails(t, e, cui) ==
    IF t.ticket = NoTicket THEN [c |-> t.c, ok |-> FALSE, uris |-> << >>]
    ELSE IF ~LooksLikeCui(cui) THEN [c |-> t.c, ok |-> FALSE, uris |-> << >>]
    ELSE IF Fails(t.c, e)
    THEN [c |-> Sent(t.c, "detail", t.ticket, 0), ok |-> FALSE, uris |-> << >>]
    ELSE [c |-> Sent(t.c, "detail", t.ticket, 1), ok |-> TRUE, uris |-> e.kb.uris]

\* UMLSClient._get_concept_details
GetConceptDetails(c, e, now, cui) ==
    (LET t == GetFreshServiceTicket(c, e, now)
     IN  FetchDetails(t, e, cui))

(* ------------------------------------------------------------------ *)
(* UMLSClient: semantic types, name similarity, lookup_term             *)
(* ------------------------------------------------------------------ *)

\* semantic_mapping of _map_semantic_type_to_entity, by target type
SemanticCodes(type) ==
    CASE type = "DISEASE" ->
            {"T047", "T046", "T048", "T049", "T019", "T020", "T037", "T050", "T033"}
      [] type = "SYMPTOM" -> {"T184", "T034", "T201"}
      [] type = "MEDICATION" ->
            {"T121", "T195", "T200", "T203", "T122", "T103", "T109", "T114", "T115",
             "T116", "T118", "T119", "T120", "T125", "T126", "T127", "T129", "T130",
             "T131"}
      [] type = "ANATOMY" ->
            {"T017", "T029", "T023", "T030", "T031", "T022", "T025", "T026", "T018",
             "T021", "T024", "T028"}

\* the keys of confidence_scores, in the dict's order
ScoreOrder == << "DISEASE", "SYMPTOM", "MEDICATION", "ANATOMY" >>

\* confidence_scores[type] after the loop, in thousandths
BucketScore(semantic_types, type) ==
    900 * Cardinality({i \in 1..Len(semantic_types) :
                          semantic_types[i] \in SemanticCodes(type)})

Min(a, b) == IF a <= b THEN a ELSE b

Max(a, b) == IF a >= b THEN a ELSE b

\* the scores of the four buckets, in the dict's order
BucketScores(semantic_types) ==
    [i \in 1..Len(ScoreOrder) |-> BucketScore(semantic_types, ScoreOrder[i])]

\* max(confidence_scores, key=confidence_scores.get): the first key, in the
\* dict's order, that has the highest score
BestBucket(scores) ==
    CHOOSE i \in DOMAIN scores :
        /\ \A j \in DOMAIN scores : scores[j] <= scores[i]
        /\ \A j \in 1..(i - 1) : scores[j] < scores[i]

\* _map_semantic_type_to_entity returning best_confidence as it is
MappedEntity_Uncapped(type, score) ==
    IF score > 0
    THEN [entity_type |-> type, confidence |-> score]
    ELSE [entity_type |-> "UNKNOWN", confidence |-> 500]

\* the return of _map_semantic_type_to_entity for the winning bucket
MappedEntity(type, score) ==
    IF score > 0
    THEN [entity_type |-> type, confidence |-> Min(score, 950)]
    ELSE [entity_type |-> "UNKNOWN", confidence |-> 500]

BestOf(scores, best) == MappedEntity(ScoreOrder[best], scores[best])

\* UMLSClient._map_semantic_type_to_entity
MapSemanticTypeToEntity(semantic_types) ==
    (LET scores == BucketScores(semantic_types)
          best == BestBucket(scores)
     IN  BestOf(scores, best))

\* uri.split('/TUI/')[-1] for a uri that holds '/TUI/'
TCodeOf(uri) ==
    LET at == {i \in 1..(Len(uri) - 4) : SubSeq(uri, i, i + 4) = "/TUI/"}
        last == CHOOSE i \in at : \A j \in at : j <= i
    IN  SubSeq(uri, last + 5, Len(uri))

RECURSIVE ExtractTCodes(_)
\* the loop of lookup_term over concept_details['semanticTypes']
ExtractTCodes(uris) ==
    IF uris = << >> THEN << >>
    ELSE IF Head(uris) # "" /\ Contains(Head(uris), "/TUI/")
         THEN << TCodeOf(Head(uris)) >> \o ExtractTCodes(Tail(uris))
         ELSE ExtractTCodes(Tail(uris))

\* the shared-word branch of _calculate_name_similarity
WordOverlap(words1, words2) ==
    IF words1 \cap words2 # {}
    THEN [num |-> 700 * Cardinality(words1 \cup words2)
                    + 200 * Cardinality(words1 \cap words2),
          den |-> Cardinality(words1 \cup words2)]
    ELSE [num |-> 600, den |-> 1]

\* UMLSClient._calculate_name_similarity as the fraction num / den of
\* thousandths: 1.0, 0.9, 0.7 + (overlap / total) * 0.2, or 0.6
CalculateNameSimilarity(term1, term2) ==
    IF term1 = term2 THEN [num |-> 1000, den |-> 1]
    ELSE IF Contains(term2, term1) \/ Contains(term1, term2) THEN [num |-> 900, den |-> 1]
    ELSE (LET words1 == Words(term1)
          words2 == Words(term2)
     IN  WordOverlap(words1, words2))

\* the result dict of lookup_term, rounded as round(x, 3) rounds
ResultDict(best, semantic_types, mapped, sim) ==
    [entity_type |-> mapped.entity_type,
     umls_code   |-> best.ui,
     confidence  |-> RoundDiv(mapped.confidence * sim.num, 1000 * sim.den),
     metadata    |-> [concept_name    |-> best.name,
                      semantic_types  |-> semantic_types,
                      name_similarity |-> RoundDiv(sim.num, sim.den),
                      umls_search     |-> "success"]]

\* the result lookup_term builds from the best search result
SuccessResult(term, best, semantic_types) ==
    (LET mapped == MapSemanticTypeToEntity(semantic_types)
          term1 == Lower(term)
          term2 == Lower(best.name)
          sim == CalculateNameSimilarity(term1, term2)
     IN  ResultDict(best, semantic_types, mapped, sim))

\* What one call leaves: the client state, the returned dict (or the raised
\* exception), whether it was served from the cache, whether it wrote it and
\* whether the INSERT of _cache_result raised.
Outcome(c, result, raised, hit, persisted) ==
    [c |-> c, result |-> result, raised |-> raised, hit |-> hit, persisted |-> persisted,
     hung |-> FALSE, store_error |-> FALSE]

\* lookup_term has not returned: it is inside requests.post
NotReturned == [waiting |-> "requests.post"]

\* the tail of lookup_term: _cache_result(term, result); return result --
\* inside the try, so a failing INSERT ends in the except branch
CacheAndReturn(c, e, use, term, result, now) ==
    IF use /\ e.writeFail
    THEN [Outcome(c, ErrorResult, FALSE, FALSE, FALSE) EXCEPT !.store_error = TRUE]
    ELSE Outcome([c EXCEPT !.cache = CacheResult(c.cache, use, term, result, now)],
                 result, FALSE, FALSE, use)

\* lookup_term once the concept details d of the best result are in
AfterDetails(d, e, use, term, best, now) ==
    (LET semantic_types == IF d.ok THEN ExtractTCodes(d.uris) ELSE << >>
          result == SuccessResult(term, best, semantic_types)
     IN  CacheAndReturn(d.c, e, use, term, result, now))

\* lookup_term telling a search that failed from one that found nothing, and
\* answering the failed one with the error result, uncached
AfterSearch_FailureIsError(s, e, use, term, clock) ==
    IF s.results = << >>
    THEN IF s.c.wire # << >> /\ s.c.wire[Len(s.c.wire)].got = 0
         THEN Outcome(s.c, ErrorResult, FALSE, FALSE, FALSE)
         ELSE CacheAndReturn(s.c, e, use, term, NoResultsResult, clock)
    ELSE (LET d == GetConceptDetails(s.c, e, clock, s.results[1].ui)
     IN  AfterDetails(d, e, use, term, s.results[1], clock))

\* lookup_term once _search_umls_concept has returned s
AfterSearch(s, e, use, term, now) ==
    IF s.results = << >>
    THEN CacheAndReturn(s.c, e, use, term, NoResultsResult, now)
    ELSE (LET d == GetConceptDetails(s.c, e, now, s.results[1].ui)
     IN  AfterDetails(d, e, use, term, s.results[1], now))

\* lookup_term looking for the API key in the client, not in os.environ
AfterCacheCheck_ClientKey(c, cached, e, use, key_in_env, term, clock) ==
    IF cached.present THEN Outcome(c, cached.result, FALSE, TRUE, FALSE)
    ELSE IF ~c.api_key THEN Outcome(c, NoKeyResult, FALSE, FALSE, FALSE)
    ELSE (LET s == SearchUmlsConcept(c, e, clock)
     IN  AfterSearch(s, e, use, term, clock))

\* lookup_term once _get_cached_result has returned cached
AfterCacheCheck(c, cached, e, use, key_in_env, term, now) ==
    IF cached.present THEN Outcome(c, cached.result, FALSE, TRUE, FALSE)
    ELSE IF ~key_in_env THEN Outcome(c, NoKeyResult, FALSE, FALSE, FALSE)
    ELSE (LET s == SearchUmlsConcept(c, e, now)
     IN  AfterSearch(s, e, use, term, now))

\* lookup_term for a client that has sent nothing yet in this call
LookupFrom(c, e, use, key_in_env, term, now) ==
    IF use /\ e.readFail
    THEN Outcome(c, Raised, TRUE, FALSE, FALSE)
    ELSE (LET cached == GetCachedResult(c.cache, use, term, now)
     IN  AfterCacheCheck(c, cached, e, use, key_in_env, term, now))

\* a call that would end as o ends: the service is silent on a request it
\* sent without a timeout, which never fails
WaitsForEver(o, e) ==
    /\ e.failKind = "silent"
    /\ e.failAt \in 1..Len(o.c.wire)
    /\ RequestTimeout(o.c.wire[e.failAt].kind) = NoTimeout

\* the call stays inside the request: nothing after it runs
Waiting(o, cache) ==
    [Outcome([o.c EXCEPT !.cache = cache], NotReturned, FALSE, FALSE, FALSE)
        EXCEPT !.hung = TRUE]

\* UMLSClient.lookup_term
LookupTerm(c, e, use, key_in_env, term, now) ==
    (LET c0 == [c EXCEPT !.wire = << >>]
          o == LookupFrom(c0, e, use, key_in_env, term, now)
     IN  IF WaitsForEver(o, e) THEN Waiting(o, c.cache) ELSE o)

(* ------------------------------------------------------------------ *)
(* Regular expressions of the pipeline.  All are compiled or used with  *)
(* re.IGNORECASE: they are matched against the lower-cased text, whose  *)
(* offsets are those of the text.                                       *)
(* ------------------------------------------------------------------ *)

\* the character of s at offset i, "" outside s
At(s, i) == IF i >= 1 /\ i <= Len(s) THEN Char(s, i) ELSE ""

\* \b between the characters i and i + 1 of s
Boundary(s, i) == IsWordChar(At(s, i)) # IsWordChar(At(s, i + 1))

\* s reads w from its character i on
HasAt(s, i, w) == i + Len(w) - 1 <= Len(s) /\ SubSeq(s, i, i + Len(w) - 1) = w

\* s ends with w
EndsWith(s, w) == Len(w) <= Len(s) /\ SubSeq(s, Len(s) - Len(w) + 1, Len(s)) = w

\* the last character of the longest run of characters of one class that
\* starts at character i of s; i - 1 when there is none
RECURSIVE RunEnd(_, _, _)
RunEnd(s, i, class) ==
    IF At(s, i) \in class THEN RunEnd(s, i + 1, class) ELSE i - 1

SpaceChars == {" "}

\* A pattern is the sequence of its items: \b, an alternation of literals
\* (in the order of the source; x? of a literal's last letter is written as
\* the two literals, longer first), or a greedy repetition of a character
\* class.
WordBoundary == [op |-> "b"]

Alt(alts) == [op |-> "alt", alts |-> alts]

Rep(class, min, max) == [op |-> "rep", class |-> class, min |-> min, max |-> max]

\* no text of the model is as long as this
Unbounded == 1000 * 1000

OneOrMore(class) == Rep(class, 1, Unbounded)

ZeroOrMore(class) == Rep(class, 0, Unbounded)

Optional(class) == Rep(class, 0, 1)

\* The matches of the items k.. of pat at character i of s, as the last
\* character of each (i - 1 for an empty match), in the order in which the
\* backtracking matcher of re tries them: the first is the match of
\* re.search / re.finditer at i, and s matches fully when one of them is
\* Len(s).
RECURSIVE MatchEnds(_, _, _, _)
RECURSIVE RepEnds(_, _, _, _, _)
RECURSIVE AltEnds(_, _, _, _, _)
MatchEnds(s, i, pat, k) ==
    IF k > Len(pat) THEN << i - 1 >>
    ELSE IF pat[k].op = "b"
    THEN IF Boundary(s, i - 1) THEN MatchEnds(s, i, pat, k + 1) ELSE << >>
    ELSE IF pat[k].op = "alt" THEN AltEnds(s, i, pat, k, 1)
    ELSE LET run == RunEnd(s, i, pat[k].class) - i + 1
         IN  RepEnds(s, i, pat, k, IF run < pat[k].max THEN run ELSE pat[k].max)

\* a repetition taking n characters, then fewer
RepEnds(s, i, pat, k, n) ==
    IF n < pat[k].min THEN << >>
    ELSE MatchEnds(s, i + n, pat, k + 1) \o RepEnds(s, i, pat, k, n - 1)

\* an alternation trying its a-th literal, then the next ones
AltEnds(s, i, pat, k, a) ==
    IF a > Len(pat[k].alts) THEN << >>
    ELSE (IF HasAt(s, i, pat[k].alts[a])
          THEN MatchEnds(s, i + Len(pat[k].alts[a]), pat, k + 1)
          ELSE << >>) \o AltEnds(s, i, pat, k, a + 1)

\* pattern.search(s)
Search(pat, s) == \E i \in 1..(Len(s) + 1) : MatchEnds(s, i, pat, 1) # << >>

\* pattern.fullmatch(s)
FullMatch(pat, s) ==
    LET ends == MatchEnds(s, 1, pat, 1)
    IN  \E n \in 1..Len(ends) : ends[n] = Len(s)

\* re.finditer(pattern, text) from character i on: the matches as
\* [first, last], leftmost first, none overlapping
RECURSIVE FindIter(_, _, _)
FindIter(pat, s, i) ==
    IF i > Len(s) THEN << >>
    ELSE LET ends == MatchEnds(s, i, pat, 1)
         IN  IF ends # << >> /\ ends[1] >= i
             THEN << [first |-> i, last |-> ends[1]] >> \o FindIter(pat, s, ends[1] + 1)
             ELSE FindIter(pat, s, i + 1)

(* ------------------------------------------------------------------ *)
(* MedicalNERPipeline._preprocess_text                                  *)
(* ------------------------------------------------------------------ *)

\* re.sub(r'\s+', ' ', text)
RECURSIVE CollapseWhitespace(_, _)
CollapseWhitespace(text, i) ==
    IF i > Len(text) THEN ""
    ELSE IF IsSpace(Char(text, i))
    THEN " " \o CollapseWhitespace(text, RunEnd(text, i, SpaceChars) + 1)
    ELSE Char(text, i) \o CollapseWhitespace(text, i + 1)

\* re.sub(r'(\d+)([a-zA-Z]+)', r'\1 \2', text): a space goes between a digit
\* and the letter that follows it
RECURSIVE SplitDigitsLetters(_, _)
SplitDigitsLetters(text, i) ==
    IF i > Len(text) THEN ""
    ELSE IF IsDigit(Char(text, i)) /\ IsAlpha(At(text, i + 1))
    THEN Char(text, i) \o " " \o SplitDigitsLetters(text, i + 1)
    ELSE Char(text, i) \o SplitDigitsLetters(text, i + 1)

\* the abbreviations dict of _preprocess_text, in its order
Abbreviations ==
    << <<"pt", "patient">>, <<"hx", "history">>, <<"dx", "diagnosis">>,
       <<"tx", "treatment">>, <<"rx", "prescription">>, <<"sx", "symptoms">>,
       <<"c/o", "complains of">>, <<"w/", "with">>, <<"w/o", "without">>,
       <<"yo", "year old">>, <<"y/o", "year old">> >>

\* re.sub(r'\b' + abbr + r'\b', full, text, flags=re.IGNORECASE), from
\* character i on; low is the lower-cased text
RECURSIVE ExpandFrom(_, _, _, _, _)
ExpandFrom(text, low, i, abbr, full) ==
    IF i > Len(text) THEN ""
    ELSE IF /\ Boundary(low, i - 1)
            /\ HasAt(low, i, abbr)
            /\ Boundary(low, i + Len(abbr) - 1)
    THEN full \o ExpandFrom(text, low, i + Len(abbr), abbr, full)
    ELSE Char(text, i) \o ExpandFrom(text, low, i + 1, abbr, full)

\* the loop over the abbreviations, from the k-th on
RECURSIVE ExpandAbbreviations(_, _)
ExpandAbbreviations(text, k) ==
    IF k > Len(Abbreviations) THEN text
    ELSE ExpandAbbreviations(
             ExpandFrom(text, Lower(text), 1, Abbreviations[k][1], Abbreviations[k][2]),
             k + 1)

\* MedicalNERPipeline._preprocess_text
PreprocessText(text) ==
    ExpandAbbreviations(SplitDigitsLetters(CollapseWhitespace(text, 1), 1), 1)

(* ------------------------------------------------------------------ *)
(* RuleBasedClassifier                                                  *)
(* ------------------------------------------------------------------ *)

DotChars == {"."}

\* \b(a|b|...)\b
WordList(alts) == << WordBoundary, Alt(alts), WordBoundary >>

\* \b\w+(a|b|...)\b
SuffixWord(suffixes) ==
    << WordBoundary, OneOrMore(WordChars), Alt(suffixes), WordBoundary >>

MedicationPatterns ==
    << SuffixWord(<< "olol", "pril", "pine", "zole", "cillin", "mycin", "vir",
                     "mab", "nib", "stat", "pram", "zepam", "done", "sone",
                     "ide", "ine", "ate" >>),
       WordList(<< "metformin", "insulin", "aspirin", "ibuprofen",
                   "acetaminophen", "tylenol", "advil", "amoxicillin",
                   "lisinopril", "metoprolol", "atorvastatin", "lipitor",
                   "omeprazole", "levothyroxine", "gabapentin", "prednisone",
                   "hydrochlorothiazide", "furosemide", "amlodipine",
                   "losartan", "simvastatin", "pantoprazole", "warfarin",
                   "tramadol" >>) >>

DosagePatterns ==
    << << OneOrMore(DigitChars), Optional(DotChars), ZeroOrMore(DigitChars),
          Optional(SpaceChars),
          Alt(<< "mg", "milligrams", "milligram", "mcg", "micrograms",
                 "microgram", "g", "grams", "gram", "ml", "milliliters",
                 "milliliter", "cc", "units", "unit", "iu", "tablets",
                 "tablet", "pills", "pill", "caps", "cap", "capsules",
                 "capsule", "drops", "drop", "puffs", "puff" >>) >>,
       << WordBoundary, Alt(<< "once", "twice", "three times", "four times" >>),
          OneOrMore(SpaceChars), Alt(<< "daily", "a day", "per day" >>) >>,
       WordList(<< "bid", "tid", "qid", "prn", "qd", "qhs", "qod" >>),
       << WordBoundary, Alt(<< "every", "each" >>), OneOrMore(SpaceChars),
          OneOrMore(DigitChars), OneOrMore(SpaceChars),
          Alt(<< "hours", "hour", "days", "day", "weeks", "week", "months",
                 "month" >>) >> >>

SymptomPatterns ==
    << << WordBoundary, ZeroOrMore(WordChars), ZeroOrMore(SpaceChars),
          Alt(<< "pain", "ache", "soreness", "tenderness", "discomfort" >>),
          WordBoundary >>,
       WordList(<< "fever", "chills", "fatigue", "weakness", "nausea",
                   "vomiting", "diarrhea", "constipation", "cough",
                   "shortness of breath", "dyspnea", "headache", "dizziness",
                   "vertigo", "rash", "itching", "pruritus", "swelling",
                   "edema", "bleeding", "discharge", "numbness", "tingling",
                   "paresthesia", "insomnia", "anxiety", "depression" >>),
       << WordBoundary,
          Alt(<< "acute", "chronic", "severe", "mild", "moderate",
                 "intermittent", "constant", "sudden", "gradual", "sharp",
                 "dull", "burning", "throbbing", "stabbing" >>),
          OneOrMore(SpaceChars), OneOrMore(WordChars) >> >>

DiseasePatterns ==
    << SuffixWord(<< "itis", "osis", "emia", "oma", "pathy", "syndrome",
                     "disease", "disorder", "deficiency" >>),
       WordList(<< "diabetes", "hypertension", "asthma", "copd", "pneumonia",
                   "bronchitis", "arthritis", "osteoporosis", "cancer",
                   "tumor", "malignancy", "infection", "sepsis", "stroke",
                   "cva", "mi", "myocardial infarction", "heart failure",
                   "chf", "atrial fibrillation", "afib", "anemia",
                   "hypothyroidism", "hyperthyroidism", "depression",
                   "anxiety", "bipolar", "schizophrenia", "alzheimer",
                   "dementia", "parkinson", "epilepsy", "seizure" >>) >>

AnatomyPatterns ==
    << WordList(<< "head", "brain", "skull", "eye", "ear", "nose", "mouth",
                   "throat", "neck", "chest", "heart", "lung", "liver",
                   "kidney", "stomach", "intestine", "colon", "arm", "leg",
                   "foot", "hand", "finger", "toe", "back", "spine", "bone",
                   "muscle", "skin", "blood", "nerve", "vessel", "artery",
                   "vein" >>),
       WordList(<< "cardiac", "pulmonary", "hepatic", "renal", "gastric",
                   "cerebral", "thoracic", "abdominal", "cervical", "lumbar",
                   "cranial" >>) >>

\* the patterns of one type, each with the type
Typed(type, patterns) ==
    [k \in 1..Len(patterns) |-> [type |-> type, pattern |-> patterns[k]]]

\* compiled_patterns with the DISEASE group in front
CompiledPatterns_DiseaseFirst ==
    Typed("DISEASE", DiseasePatterns) \o Typed("MEDICATION", MedicationPatterns)
        \o Typed("DOSAGE", DosagePatterns) \o Typed("SYMPTOM", SymptomPatterns)
        \o Typed("ANATOMY", AnatomyPatterns)

\* RuleBasedClassifier._initialize_patterns / compile_patterns: the patterns
\* in the order of the dict, which is the order classify tries them in
CompiledPatterns ==
    Typed("MEDICATION", MedicationPatterns) \o Typed("DOSAGE", DosagePatterns)
        \o Typed("SYMPTOM", SymptomPatterns) \o Typed("DISEASE", DiseasePatterns)
        \o Typed("ANATOMY", AnatomyPatterns)

\* the loop of classify from the k-th pattern on; (None, 0.0) is type None,
\* confidence 0
RECURSIVE ClassifyFrom(_, _)
ClassifyFrom(text_lower, k) ==
    IF k > Len(CompiledPatterns) THEN [entity_type |-> None, confidence |-> 0]
    ELSE IF Search(CompiledPatterns[k].pattern, text_lower)
    THEN [entity_type |-> CompiledPatterns[k].type,
          confidence |-> IF FullMatch(CompiledPatterns[k].pattern, text_lower)
                         THEN 950 ELSE 850]
    ELSE ClassifyFrom(text_lower, k + 1)

\* RuleBasedClassifier.classify
Classify(text) == ClassifyFrom(Lower(Strip(text)), 1)

(* ------------------------------------------------------------------ *)
(* MedicalNERPipeline._extract_entity_candidates                        *)
(* ------------------------------------------------------------------ *)

\* the patterns list of _extract_entity_candidates, each with its base score
CandidatePatterns ==
    << [pattern |-> << WordBoundary, OneOrMore(WordChars), OneOrMore(SpaceChars),
                       OneOrMore(DigitChars), Optional(SpaceChars),
                       Alt(<< "mg" >>), WordBoundary >>,
        score |-> 850],
       [pattern |-> WordList(<< "diabetes", "hypertension", "infection",
                                "infarction" >>),
        score |-> 900],
       [pattern |-> WordList(<< "fever", "headache", "pain", "stiffness",
                                "nausea" >>),
        score |-> 850],
       \* BID of the source is matched ignoring case
       [pattern |-> << WordBoundary, OneOrMore(DigitChars), Optional(SpaceChars),
                       Alt(<< "mg", "ml", "mcg", "daily", "twice daily", "bid" >>),
                       WordBoundary >>,
        score |-> 800],
       [pattern |-> SuffixWord(<< "itis", "osis", "emia", "oma", "pathy" >>),
        score |-> 750],
       [pattern |-> WordList(<< "metformin", "aspirin", "atorvastatin",
                                "metoprolol", "ibuprofen", "lisinopril" >>),
        score |-> 900] >>

\* the candidates of one pattern: match.group(), match.start(), match.end()
\* and the base score
CandidatesOf(text, matches, score) ==
    [n \in 1..Len(matches) |->
        [text  |-> SubSeq(text, matches[n].first, matches[n].last),
         start |-> matches[n].first - 1,
         end   |-> matches[n].last,
         score |-> score]]

\* the loop over the patterns, from the k-th on
RECURSIVE PatternCandidates(_, _, _)
PatternCandidates(text, low, k) ==
    IF k > Len(CandidatePatterns) THEN << >>
    ELSE CandidatesOf(text, FindIter(CandidatePatterns[k].pattern, low, 1),
                      CandidatePatterns[k].score)
         \o PatternCandidates(text, low, k + 1)

\* removing duplicates by keeping the candidates whose (text.lower(), start)
\* no later candidate has
RECURSIVE UniqueCandidates_KeepLast(_, _)
UniqueCandidates_KeepLast(candidates, n) ==
    IF n > Len(candidates) THEN << >>
    ELSE IF \E m \in (n + 1)..Len(candidates) :
                /\ Lower(candidates[m].text) = Lower(candidates[n].text)
                /\ candidates[m].start = candidates[n].start
    THEN UniqueCandidates_KeepLast(candidates, n + 1)
    ELSE << candidates[n] >> \o UniqueCandidates_KeepLast(candidates, n + 1)

\* "Remove duplicates": the candidates whose (text.lower(), start) no earlier
\* candidate has
RECURSIVE UniqueCandidates(_, _)
UniqueCandidates(candidates, n) ==
    IF n > Len(candidates) THEN << >>
    ELSE IF \E m \in 1..(n - 1) :
                /\ Lower(candidates[m].text) = Lower(candidates[n].text)
                /\ candidates[m].start = candidates[n].start
    THEN UniqueCandidates(candidates, n + 1)
    ELSE << candidates[n] >> \o UniqueCandidates(candidates, n + 1)

\* _extract_entity_candidates returning what the tagger gave alone
ExtractEntityCandidates_TaggerOnly(text, tagged) == UniqueCandidates(tagged, 1)

\* MedicalNERPipeline._extract_entity_candidates: tagged are the candidates
\* taken from the tagger (none when it is absent or raised)
ExtractEntityCandidates(text, tagged) ==
    UniqueCandidates(tagged \o PatternCandidates(text, Lower(text), 1), 1)

(* ------------------------------------------------------------------ *)
(* MedicalNERPipeline: classification, post-processing, confidence gate *)
(* ------------------------------------------------------------------ *)

\* NERConfig.AUTO_ACCEPT_THRESHOLD, in thousandths
AUTO_ACCEPT_THRESHOLD == 500

\* NERConfig.REVIEW_THRESHOLD, in thousandths
REVIEW_THRESHOLD == 300

\* a MedicalEntity whose metadata is None, or a dict without the key
NoMetadata == [linked_medication |-> None, context |-> None, review_status |-> None]

\* the entity's confidence being the classification confidence alone
CombineConfidences_Unscaled(confidence, score) == confidence * 1000

\* "Combine confidences": confidence * cand["score"], in millionths
CombineConfidences(confidence, score) == confidence * score

\* _classify_entities sending every candidate to the knowledge base
NeedsLookup_Always(rule) == TRUE

\* "If no rule match or low confidence, try UMLS": the rule classifier's
\* answer sends the candidate to the knowledge base when that is enabled
NeedsLookup(rule) == rule.entity_type = None \/ rule.confidence < 800

\* _classify_entities going to the knowledge base whatever the config says
LooksUp_IgnoringConfig(rule, enable) == NeedsLookup(rule)

\* the two tests before self.umls_client.lookup_term(text): the rule's answer
\* and self.config.ENABLE_UMLS
LooksUp(rule, enable) == NeedsLookup(rule) /\ enable

\* _classify_entities adopting a lookup whose confidence equals the rule's
Settle_AdoptOnTie(rule, looked_up, umls_result) ==
    IF looked_up /\ umls_result.confidence >= rule.confidence
    THEN [entity_type |-> umls_result.entity_type,
          confidence  |-> umls_result.confidence,
          umls_code   |-> umls_result.umls_code]
    ELSE [entity_type |-> rule.entity_type,
          confidence  |-> rule.confidence,
          umls_code   |-> None]

\* the classification _classify_entities settles on: the rule's, or the
\* lookup's when one was made and its confidence is greater
Settle(rule, looked_up, umls_result) ==
    IF looked_up /\ umls_result.confidence > rule.confidence
    THEN [entity_type |-> umls_result.entity_type,
          confidence  |-> umls_result.confidence,
          umls_code   |-> umls_result.umls_code]
    ELSE [entity_type |-> rule.entity_type,
          confidence  |-> rule.confidence,
          umls_code   |-> None]

\* "Create medical entity"
NewEntity(cand, settled) ==
    [text            |-> cand.text,
     type            |-> settled.entity_type,
     start_pos       |-> cand.start,
     end_pos         |-> cand.end,
     confidence      |-> CombineConfidences(settled.confidence, cand.score),
     umls_code       |-> settled.umls_code,
     normalized_text |-> None,
     metadata        |-> NoMetadata]

\* one iteration of the loop of _classify_entities on the list classified
ClassifyEntity(classified, cand, rule, looked_up, umls_result) ==
    LET settled == Settle(rule, looked_up, umls_result)
    IN  IF settled.entity_type = None THEN classified
        ELSE Append(classified, NewEntity(cand, settled))

\* brand_to_generic of _normalize_drug_name
BrandToGeneric ==
    [tylenol  |-> "acetaminophen", advil  |-> "ibuprofen", motrin |-> "ibuprofen",
     lipitor  |-> "atorvastatin",  zocor  |-> "simvastatin",
     prilosec |-> "omeprazole",    nexium |-> "esomeprazole"]

\* MedicalNERPipeline._normalize_drug_name
NormalizeDrugName(drug_name) ==
    IF Lower(drug_name) \in DOMAIN BrandToGeneric
    THEN BrandToGeneric[Lower(drug_name)] ELSE drug_name

Abs(x) == IF x < 0 THEN 0 - x ELSE x

\* _find_nearest_medication linking the nearest medication however far it is
FindNearestMedication_AnyDistance(dosage_entity, all_entities) ==
    LET distance(m) == Abs(dosage_entity.start_pos - all_entities[m].end_pos)
        medications == {m \in 1..Len(all_entities) : all_entities[m].type = "MEDICATION"}
    IN  IF medications = {} THEN 0
        ELSE CHOOSE m \in medications :
                 \A o \in medications :
                     distance(m) < distance(o) \/ (distance(m) = distance(o) /\ m <= o)

\* MedicalNERPipeline._find_nearest_medication: the index of the first
\* medication at the least distance, that distance being under 50; 0 is None
FindNearestMedication(dosage_entity, all_entities) ==
    LET distance(m) == Abs(dosage_entity.start_pos - all_entities[m].end_pos)
        medications == {m \in 1..Len(all_entities) :
                           all_entities[m].type = "MEDICATION" /\ distance(m) < 50}
    IN  IF medications = {} THEN 0
        ELSE CHOOSE m \in medications :
                 \A o \in medications :
                     distance(m) < distance(o) \/ (distance(m) = distance(o) /\ m <= o)

\* original_text[context_start:context_end]
Slice(s, from, to) ==
    LET last == IF to < Len(s) THEN to ELSE Len(s)
    IN  IF from >= last THEN "" ELSE SubSeq(s, from + 1, last)

\* the body of the loop of _postprocess_entities on one entity
PostprocessEntity(entity, entities, original_text) ==
    LET med == IF entity.type = "DOSAGE"
               THEN FindNearestMedication(entity, entities) ELSE 0
        context_start == IF entity.start_pos - 20 > 0 THEN entity.start_pos - 20 ELSE 0
        context_end   == IF Len(original_text) < entity.end_pos + 20
                         THEN Len(original_text) ELSE entity.end_pos + 20
    IN  [entity EXCEPT
            !.normalized_text =
                IF entity.type = "MEDICATION" THEN NormalizeDrugName(entity.text) ELSE @,
            !.metadata =
                [linked_medication |-> IF med # 0 THEN entities[med].text ELSE None,
                 context           |-> Slice(original_text, context_start, context_end),
                 review_status     |-> None]]

\* MedicalNERPipeline._postprocess_entities: what the loop changes of an
\* entity is not read for the others
PostprocessEntities(entities, original_text) ==
    [n \in 1..Len(entities) |-> PostprocessEntity(entities[n], entities, original_text)]

\* _filter_by_confidence keeping the entities under the review threshold as
\* entities to review
FilterByConfidence_KeepAll(entities, n) ==
    [m \in 1..Len(entities) |->
        [entities[m] EXCEPT !.metadata.review_status =
            IF entities[m].confidence >= AUTO_ACCEPT_THRESHOLD * 1000
            THEN "auto_accepted" ELSE "needs_review"]]

\* _filter_by_confidence with a gate that lets the entities under the review
\* threshold through, marked as rejected
RECURSIVE FilterByConfidence_KeepRejected(_, _)
FilterByConfidence_KeepRejected(entities, n) ==
    IF n > Len(entities) THEN << >>
    ELSE IF entities[n].confidence >= AUTO_ACCEPT_THRESHOLD * 1000
    THEN << [entities[n] EXCEPT !.metadata.review_status = "auto_accepted"] >>
         \o FilterByConfidence_KeepRejected(entities, n + 1)
    ELSE IF entities[n].confidence >= REVIEW_THRESHOLD * 1000
    THEN << [entities[n] EXCEPT !.metadata.review_status = "needs_review"] >>
         \o FilterByConfidence_KeepRejected(entities, n + 1)
    ELSE << [entities[n] EXCEPT !.metadata.review_status = "rejected"] >>
         \o FilterByConfidence_KeepRejected(entities, n + 1)

\* MedicalNERPipeline._filter_by_confidence, from the n-th entity on
RECURSIVE FilterByConfidence(_, _)
FilterByConfidence(entities, n) ==
    IF n > Len(entities) THEN << >>
    ELSE IF entities[n].confidence >= AUTO_ACCEPT_THRESHOLD * 1000
    THEN << [entities[n] EXCEPT !.metadata.review_status = "auto_accepted"] >>
         \o FilterByConfidence(entities, n + 1)
    ELSE IF entities[n].confidence >= REVIEW_THRESHOLD * 1000
    THEN << [entities[n] EXCEPT !.metadata.review_status = "needs_review"] >>
         \o FilterByConfidence(entities, n + 1)
    ELSE FilterByConfidence(entities, n + 1)

(* ------------------------------------------------------------------ *)
(* MedicalNERPipeline.process_document                                  *)
(* ------------------------------------------------------------------ *)

\* MedicalEntity.to_dict
ToDict(entity) ==
    [text       |-> entity.text,
     type       |-> entity.type,
     position   |-> [start |-> entity.start_pos, end |-> entity.end_pos],
     confidence |-> RoundDiv(entity.confidence, 1000),
     umls_code  |-> entity.umls_code,
     normalized |-> entity.normalized_text,
     metadata   |-> entity.metadata]

\* grouped_entities and medications_with_dosage before the loop; the dict
\* medications_with_dosage is the list of its values, in insertion order
\* (its keys are their names)
EmptyGroups ==
    [diseases |-> << >>, symptoms |-> << >>, medications |-> << >>,
     dosages |-> << >>, anatomy |-> << >>, unclassified |-> << >>]

\* the value medications_with_dosage gets for a medication
MedicationEntry(entity) ==
    [name            |-> entity.text,
     normalized_name |-> entity.normalized_text,
     confidence      |-> entity.confidence,
     position        |-> [start |-> entity.start_pos, end |-> entity.end_pos],
     dosage          |-> None,
     umls_code       |-> entity.umls_code]

\* the positions of a key in medications_with_dosage
KeyIndex(medications, key) ==
    {m \in 1..Len(medications) : medications[m].name = key}

\* the medication branch keeping the entry a key already has
PutMedication_KeepFirst(medications, entity) ==
    IF KeyIndex(medications, entity.text) = {}
    THEN Append(medications, MedicationEntry(entity))
    ELSE medications

\* medications_with_dosage[med_key] = {...}
PutMedication(medications, entity) ==
    IF KeyIndex(medications, entity.text) = {}
    THEN Append(medications, MedicationEntry(entity))
    ELSE [m \in 1..Len(medications) |->
             IF medications[m].name = entity.text
             THEN MedicationEntry(entity) ELSE medications[m]]

\* the branch of a dosage making an entry for a linked medication that has
\* none
PutDosage_MakingEntry(groups, entity) ==
    LET linked_med == entity.metadata.linked_medication
    IN  IF linked_med # None /\ linked_med # ""
        THEN IF KeyIndex(groups.medications, linked_med) # {}
             THEN [groups EXCEPT !.medications =
                      [m \in 1..Len(groups.medications) |->
                          IF groups.medications[m].name = linked_med
                          THEN [groups.medications[m] EXCEPT !.dosage = entity.text]
                          ELSE groups.medications[m]]]
             ELSE [groups EXCEPT !.medications =
                      Append(@, [MedicationEntry(entity) EXCEPT
                                    !.name = linked_med, !.dosage = entity.text])]
        ELSE [groups EXCEPT !.dosages = Append(@, ToDict(entity))]

\* the branch of a dosage: linked to its medication when that is in the dict
PutDosage(groups, entity) ==
    LET linked_med == entity.metadata.linked_medication
    IN  IF /\ linked_med # None
           /\ linked_med # ""
           /\ KeyIndex(groups.medications, linked_med) # {}
        THEN [groups EXCEPT !.medications =
                 [m \in 1..Len(groups.medications) |->
                     IF groups.medications[m].name = linked_med
                     THEN [groups.medications[m] EXCEPT !.dosage = entity.text]
                     ELSE groups.medications[m]]]
        ELSE [groups EXCEPT !.dosages = Append(@, ToDict(entity))]

\* the body of the grouping loop of process_document
GroupEntity(groups, entity) ==
    CASE entity.type = "DISEASE" -> [groups EXCEPT !.diseases = Append(@, ToDict(entity))]
      [] entity.type = "SYMPTOM" -> [groups EXCEPT !.symptoms = Append(@, ToDict(entity))]
      [] entity.type = "MEDICATION" ->
            [groups EXCEPT !.medications = PutMedication(@, entity)]
      [] entity.type = "DOSAGE" -> PutDosage(groups, entity)
      [] entity.type = "ANATOMY" -> [groups EXCEPT !.anatomy = Append(@, ToDict(entity))]
      [] OTHER -> [groups EXCEPT !.unclassified = Append(@, ToDict(entity))]

\* the grouping loop of process_document, from the n-th entity on
RECURSIVE GroupEntities(_, _, _)
GroupEntities(groups, entities, n) ==
    IF n > Len(entities) THEN groups
    ELSE GroupEntities(GroupEntity(groups, entities[n]), entities, n + 1)

\* sum(1 for e in entities if ...) on the review status
CountStatus(entities, status) ==
    Cardinality({n \in 1..Len(entities) : entities[n].metadata.review_status = status})

\* sum(1 for e in entities if e.confidence >= low), the limit in thousandths
CountAtLeast(entities, low) ==
    Cardinality({n \in 1..Len(entities) : entities[n].confidence >= low * 1000})

\* sum(1 for e in entities if e.confidence < high), the limit in thousandths
CountBelow(entities, high) ==
    Cardinality({n \in 1..Len(entities) : entities[n].confidence < high * 1000})

\* sum(1 for e in entities if low <= e.confidence < high), the limits in
\* thousandths
CountBetween(entities, low, high) ==
    Cardinality({n \in 1..Len(entities) :
                    /\ low * 1000 <= entities[n].confidence
                    /\ entities[n].confidence < high * 1000})

\* the output dict of process_document for the entities extract_entities
\* returned; the clock of the model does not advance during a document
DocumentOutput(text, entities) ==
    LET grouped_entities == GroupEntities(EmptyGroups, entities, 1)
    IN  [status             |-> "success",
         processing_time_ms |-> 0,
         text_length        |-> Len(text),
         total_entities     |-> Len(entities),
         entities           |-> grouped_entities,
         statistics         |->
             [diseases      |-> Len(grouped_entities.diseases),
              symptoms      |-> Len(grouped_entities.symptoms),
              medications   |-> Len(grouped_entities.medications),
              auto_accepted |-> CountStatus(entities, "auto_accepted"),
              needs_review  |-> CountStatus(entities, "needs_review")],
         confidence_summary |->
             [high   |-> CountAtLeast(entities, 900),
              medium |-> CountBetween(entities, 700, 900),
              low    |-> CountBelow(entities, 700)]]

(* ------------------------------------------------------------------ *)
(* State                                                                *)
(* ------------------------------------------------------------------ *)

VARIABLES
    now,          \* time.time()
    ticks,        \* clock advances so far
    calls,        \* lookup_term calls so far
    env_api_key,  \* os.environ holds a UMLS_API_KEY
    use_cache,    \* UMLSClient.use_cache
    umls_client,  \* UMLSClient: tgt_url, tgt_expiry, the umls_cache table, the
                  \* service's counters of granted TGTs and tickets, and the
                  \* requests of the last call
    ret,          \* the last lookup_term call and what it left
    doc,          \* the process_document call: where it is (pc), its text,
                  \* the preprocessed text, the candidates, the next one to
                  \* classify, the entities so far and the output
    enable_umls,  \* NERConfig.ENABLE_UMLS of the pipeline's config
    rule_classifier,  \* the last RuleBasedClassifier.classify call: its text
                  \* and what it returned
    semantic,     \* the last _map_semantic_type_to_entity call: its codes and
                  \* what it returned
    crew,         \* the process_medical_query_enhanced call: where it is,
                  \* the crew.kickoff calls so far and what it returned
    threads       \* the threads that call _get_tgt_url on the shared client:
                  \* where each is, what it read and what it was granted

vars == << now, ticks, calls, env_api_key, use_cache, umls_client, ret, doc,
           enable_umls, rule_classifier, semantic, crew, threads >>

\* the terms looked up in the client specification; two of them differ in
\* letter case only
Terms == {"Aspirin ", "ASPIRIN ", "neck stiffness"}

\* time.time() when the process starts
StartTime == CacheTtl - 1

\* The umls_cache table when the process starts: empty, or holding a row an
\* earlier process wrote (the table is kept across processes).
InitialCaches ==
    { << >>,
      [k \in {"aspirin"} |-> [result |-> NoResultsResult, timestamp |-> 0]] }

\* how far the clock may advance between two calls
TickSteps == {TgtLifetime, CacheTtl}

\* no process_document call yet
IdleDocument ==
    [pc |-> "idle", n |-> 0, text |-> "", tagger |-> "absent", tagged |-> << >>,
     preprocessed |-> "", candidates |-> << >>, next |-> 1, classified |-> << >>,
     final_entities |-> << >>, entities |-> << >>, output |-> [status |-> None]]

\* UMLSClient(api_key, use_cache): api_key is whether a key was given
NewClient(cache, api_key) ==
    [api_key |-> api_key, tgt_url |-> NoUrl, tgt_expiry |-> 0, cache |-> cache,
     tgtSeq |-> 0, stSeq |-> 0, wire |-> << >>]

\* the threads that share the pipeline and its client
Threads == {1, 2}

\* No thread is inside _get_tgt_url.  Of a thread: where it is (pc), the
\* calls it has made (n), the self.tgt_url it read for the test of line 267
\* (seen), the refresh that wrote the self.tgt_expiry it tested (expiry_from),
\* the location its own API-key exchange was answered with (granted) and
\* what its last call returned (url).  expiry_of is the refresh -- named by
\* the location it was granted -- that wrote self.tgt_expiry.
IdleThreads ==
    [at |-> [t \in Threads |->
                [pc |-> "idle", n |-> 0, seen |-> NoUrl, expiry_from |-> NoUrl,
                 granted |-> NoUrl, url |-> NoUrl]],
     expiry_of |-> NoUrl]

\* no classify call yet, the text to classify chosen
ClassifyInput(text) ==
    [called |-> FALSE, text |-> text, entity_type |-> None, confidence |-> 0]

\* _map_semantic_type_to_entity before it is called on semantic_types
SemanticInput(semantic_types) ==
    [called |-> FALSE, semantic_types |-> semantic_types,
     entity_type |-> None, confidence |-> 0]

\* no process_medical_query_enhanced call yet
IdleCrew ==
    [pc |-> "idle", patient_input |-> "", attempts |-> 0, failures |-> << >>,
     ner_result |-> [status |-> None], output |-> [status |-> None]]

\* none of the calls the other specifications are about has been made
NoOtherCall(called) ==
    /\ "classify" \in called \/ rule_classifier = ClassifyInput("")
    /\ "map" \in called \/ semantic = SemanticInput(<< >>)
    /\ "crew" \in called \/ crew = IdleCrew

\* MedicalNERPipeline.__init__ and UMLSClient.__init__ have run; enables are
\* the values the config may give ENABLE_UMLS, keys those it may give
\* UMLS_API_KEY (a key, or none)
Constructed(enables, keys) ==
    /\ now = StartTime
    /\ ticks = 0
    /\ calls = 0
    /\ env_api_key \in BOOLEAN
    /\ use_cache \in BOOLEAN
    /\ umls_client \in {NewClient(cache, key) :
                            cache \in IF use_cache THEN InitialCaches ELSE {<< >>},
                            key \in keys}
    /\ ret = [called |-> FALSE, hung |-> FALSE]
    /\ doc = IdleDocument
    /\ enable_umls \in enables
    /\ threads = IdleThreads

\* the pipeline as NERConfig makes it: ENABLE_UMLS = True; the client was
\* given the key passed to MedicalNLPAgent or, none being passed, what
\* NERConfig.UMLS_API_KEY read in the environment
Init ==
    /\ Constructed({TRUE}, {TRUE, env_api_key})
    /\ NoOtherCall({})

(* ------------------------------------------------------------------ *)
(* Actions of the client specification                                  *)
(* ------------------------------------------------------------------ *)

\* The faults that make a difference to a call: none but a failing SELECT
\* when the call is answered by the cache or stops for want of an API key,
\* and none of the store when the cache is off.
EnvsFor(term) ==
    IF \/ GetCachedResult(umls_client.cache, use_cache, term, now).present
       \/ ~env_api_key
    THEN IF use_cache THEN {QuietEnv, ReadFailEnv} ELSE {QuietEnv}
    ELSE IF use_cache THEN Envs ELSE NetEnvs({FALSE})

\* one call of UMLSClient.lookup_term; the caller of a call that has not
\* returned makes no other
LookupTermCall(term, e) ==
    /\ ~ret.hung
    /\ \E o \in {LookupTerm(umls_client, e, use_cache, env_api_key, term, now)} :
           /\ umls_client' = o.c
           /\ ret' = [called |-> TRUE, term |-> term, at |-> now,
                      result |-> o.result, raised |-> o.raised,
                      hit |-> o.hit, persisted |-> o.persisted, hung |-> o.hung,
                      store_error |-> o.store_error]
    /\ calls' = calls + 1
    /\ UNCHANGED << now, ticks, env_api_key, use_cache, doc, enable_umls, rule_classifier, semantic, crew, threads >>

\* time passes between two calls
Tick(d) ==
    /\ ticks < MaxTicks
    /\ now' = now + d
    /\ ticks' = ticks + 1
    /\ UNCHANGED << calls, env_api_key, use_cache, umls_client, ret, doc, enable_umls, rule_classifier, semantic, crew, threads >>

Next ==
    \/ /\ calls < MaxCalls
       /\ \E term \in Terms : \E e \in EnvsFor(term) : LookupTermCall(term, e)
    \/ \E d \in TickSteps : Tick(d)

Spec == Init /\ [][Next]_vars

(* ------------------------------------------------------------------ *)
(* Actions of the pipeline specification: one process_document call,    *)
(* stepping at each candidate of _classify_entities                     *)
(* ------------------------------------------------------------------ *)

\* the texts given to process_document
Documents ==
    {"", "pt has diabetes", "neck  stiffness", "aspirin 500mg BID",
     "fever, stiffness, infarction", "take 2 daily",
     "Patient on metformin 500mg twice daily for diabetes",
     "aspirin stopped: gastrointestinal bleeding, intolerance; 5 mg",
     "Fever", "aspirin 5mg, aspirin"}

\* the scores the tagger gives an entity, in thousandths
TaggerScores == {300, 990}

\* the words of a text, as [first, last]
WordRuns(text) ==
    {[first |-> i, last |-> RunEnd(text, i, WordChars)] :
        i \in {j \in 1..Len(text) : IsWordChar(Char(text, j)) /\ Boundary(text, j - 1)}}

\* What self.ner_pipeline does with a text: it is None (the model could not
\* be loaded for token classification), it raises, or it answers with
\* entities -- here one word of the text with a score, the word as it is in
\* the text or as an uncased tokenizer gives it.
TaggerOutcomes(text) ==
    {[mode |-> "absent", tagged |-> << >>], [mode |-> "raises", tagged |-> << >>]}
    \cup {[mode |-> "answers",
           tagged |-> << [text  |-> IF cased THEN SubSeq(text, w.first, w.last)
                                    ELSE Lower(SubSeq(text, w.first, w.last)),
                          start |-> w.first - 1,
                          end   |-> w.last,
                          score |-> score] >>] :
             w \in WordRuns(text), score \in TaggerScores, cased \in BOOLEAN}

\* the faults of a lookup made for a document
DocumentEnvs ==
    {Env(0, "error", kb, FALSE, FALSE) : kb \in Responses}
    \cup {Env(1, "error", EmptyResponse, FALSE, FALSE),
          Env(1, "silent", EmptyResponse, FALSE, FALSE),
          Env(0, "error", ExactHitResponse, FALSE, TRUE),
          ReadFailEnv}

DocumentEnvsFor(term) ==
    IF \/ GetCachedResult(umls_client.cache, use_cache, term, now).present
       \/ ~env_api_key
    THEN IF use_cache THEN {QuietEnv, ReadFailEnv} ELSE {QuietEnv}
    ELSE IF use_cache THEN DocumentEnvs
         ELSE {e \in DocumentEnvs : ~e.readFail /\ ~e.writeFail}

\* process_document can be called
NoDocumentRunning == doc.pc \in {"idle", "done", "raised"} /\ doc.n < MaxDocs

\* process_document up to the loop of _classify_entities: the text is
\* preprocessed and the candidates are extracted from the preprocessed text
StartDocument(text, tagger) ==
    /\ \E preprocessed_text \in {PreprocessText(text)} :
           doc' = [IdleDocument EXCEPT
                      !.pc = "classify",
                      !.n = doc.n + 1,
                      !.text = text,
                      !.tagger = tagger.mode,
                      !.tagged = tagger.tagged,
                      !.preprocessed = preprocessed_text,
                      !.candidates =
                          ExtractEntityCandidates(preprocessed_text, tagger.tagged)]
    /\ UNCHANGED << now, ticks, calls, env_api_key, use_cache, umls_client, ret, enable_umls, rule_classifier, semantic, crew, threads >>

\* process_document called by the caller of the pipeline
BeginDocument(text, tagger) ==
    /\ NoDocumentRunning
    /\ StartDocument(text, tagger)

\* the candidate the loop of _classify_entities is at
Candidate == doc.candidates[doc.next]

Classifying == doc.pc = "classify" /\ doc.next <= Len(doc.candidates)

\* one iteration of _classify_entities for a candidate that is not looked
\* up: the rules settle it, or the knowledge base is disabled; rule is what
\* rule_classifier.classify answers for it
ClassifyByRule(rule) ==
    /\ Classifying
    /\ ~LooksUp(rule, enable_umls)
    /\ doc' = [doc EXCEPT
                  !.classified = ClassifyEntity(@, Candidate, rule, FALSE, NoKeyResult),
                  !.next = @ + 1]
    /\ UNCHANGED << now, ticks, calls, env_api_key, use_cache, umls_client, ret, enable_umls, rule_classifier, semantic, crew, threads >>

\* one iteration of _classify_entities for a candidate that is looked up;
\* an exception of lookup_term leaves process_document, and a lookup_term
\* that does not return keeps it waiting
ClassifyWithLookup(rule, e) ==
    /\ Classifying
    /\ LooksUp(rule, enable_umls)
    /\ \E o \in {LookupTerm(umls_client, e, use_cache, env_api_key, Candidate.text, now)} :
           /\ umls_client' = o.c
           /\ ret' = [called |-> TRUE, term |-> Candidate.text, at |-> now,
                      result |-> o.result, raised |-> o.raised,
                      hit |-> o.hit, persisted |-> o.persisted, hung |-> o.hung,
                      store_error |-> o.store_error]
           /\ doc' = IF o.raised
                     THEN [doc EXCEPT !.pc = "raised"]
                     ELSE IF o.hung
                     THEN [doc EXCEPT !.pc = "waiting"]
                     ELSE [doc EXCEPT
                              !.classified =
                                  ClassifyEntity(@, Candidate, rule, TRUE, o.result),
                              !.next = @ + 1]
    /\ calls' = calls + 1
    /\ UNCHANGED << now, ticks, env_api_key, use_cache, enable_umls, rule_classifier, semantic, crew, threads >>

\* the rest of process_document: post-processing against the original text,
\* the confidence gate, the grouping and the output
FinishDocument ==
    /\ doc.pc = "classify"
    /\ doc.next > Len(doc.candidates)
    /\ \E final_entities \in {PostprocessEntities(doc.classified, doc.text)} :
       \E filtered_entities \in {FilterByConfidence(final_entities, 1)} :
           doc' = [doc EXCEPT
                      !.pc = "done",
                      !.final_entities = final_entities,
                      !.entities = filtered_entities,
                      !.output = DocumentOutput(doc.text, filtered_entities)]
    /\ UNCHANGED << now, ticks, calls, env_api_key, use_cache, umls_client, ret, enable_umls, rule_classifier, semantic, crew, threads >>

DocumentNext ==
    \/ /\ NoDocumentRunning
       /\ \E text \in Documents : \E tagger \in TaggerOutcomes(PreprocessText(text)) :
              BeginDocument(text, tagger)
    \/ /\ Classifying
       /\ \E rule \in {Classify(Candidate.text)} :
              \/ ClassifyByRule(rule)
              \/ \E e \in DocumentEnvsFor(Candidate.text) : ClassifyWithLookup(rule, e)
    \/ FinishDocument

\* the pipeline of any config: ENABLE_UMLS on or off
DocumentInit ==
    /\ Constructed(BOOLEAN, {env_api_key})
    /\ NoOtherCall({})

DocumentSpec == DocumentInit /\ [][DocumentNext]_vars

(* ------------------------------------------------------------------ *)
(* Actions of the crew specification: one call of                       *)
(* EnhancedMedicalCrewMVP.process_medical_query_enhanced, stepping with *)
(* the two process_document calls it makes and at each crew.kickoff     *)
(* ------------------------------------------------------------------ *)

\* crew.kickoff calls after which the model follows a query no further
MaxKickoffs == 4

\* stop_after_attempt(3) of process_with_retry
StopAfterAttempt == 3

\* wait_exponential(multiplier=1, min=30, max=60), in seconds
WaitMin == 30

WaitMax == 60

\* time.sleep(35) of process_with_retry, in seconds
RateLimitSleep == 35

\* the queries given to process_medical_query_enhanced
Queries == {"pt has diabetes", "neck  stiffness"}

\* what one crew.kickoff call does: it returns, or raises an exception that
\* names the rate limit ("429"), or another one
KickoffOutcomes == {"returns", "rate limit", "error"}

\* the retry loop going on after every failed attempt
Stops_Never(attempt_number) == FALSE

\* stop_after_attempt(3): the retry loop ends with this attempt
Stops(attempt_number) == attempt_number >= StopAfterAttempt

RECURSIVE Pow2(_)
Pow2(n) == IF n = 0 THEN 1 ELSE 2 * Pow2(n - 1)

\* wait_exponential(multiplier=1, min=30, max=60) after the attempt
RetryWait(attempt_number) == Max(WaitMin, Min(Pow2(attempt_number - 1), WaitMax))

\* the dict process_medical_query_enhanced returns after process_with_retry
\* has returned
SuccessOutput(patient_input, ner_result) ==
    [status                |-> "success",
     patient_input         |-> patient_input,
     ner_extraction        |-> ner_result,
     metrics               |->
         [processing_time_ms |-> ner_result.processing_time_ms,
          entities_extracted |-> ner_result.total_entities,
          confidence         |-> ner_result.confidence_summary],
     requires_human_review |-> ner_result.statistics.needs_review > 0]

\* the dict of the except branch of process_medical_query_enhanced
ErrorOutput(ner_result) ==
    [status                |-> "error",
     ner_extraction        |-> ner_result,
     requires_human_review |-> TRUE]

\* process_medical_query_enhanced is called
QueryCall(patient_input) ==
    /\ crew.pc = "idle"
    /\ crew' = [IdleCrew EXCEPT !.pc = "process_medical_text",
                                !.patient_input = patient_input]
    /\ UNCHANGED << now, ticks, calls, env_api_key, use_cache, umls_client, ret, doc,
                    enable_umls, rule_classifier, semantic, threads >>

\* the query is inside process_document: called by process_medical_text for
\* the first time, by get_formatted_output for the second
InProcessDocument ==
    \/ crew.pc = "process_medical_text" /\ doc.n = 1
    \/ crew.pc = "get_formatted_output" /\ doc.n = 2

\* a step of the process_document call the query is in, or the call of it
QueryDocumentStep ==
    \/ /\ \/ crew.pc = "process_medical_text" /\ doc.n = 0
          \/ crew.pc = "get_formatted_output" /\ doc.n = 1
       /\ \E tagger \in {t \in TaggerOutcomes(PreprocessText(crew.patient_input)) :
                             t.mode # "answers"} :
              StartDocument(crew.patient_input, tagger)
    \/ /\ InProcessDocument
       /\ Classifying
       /\ \E rule \in {Classify(Candidate.text)} :
              \/ ClassifyByRule(rule)
              \/ \E e \in DocumentEnvsFor(Candidate.text) : ClassifyWithLookup(rule, e)
    \/ /\ InProcessDocument
       /\ FinishDocument

\* process_medical_text returns the result of process_document
ProcessMedicalTextReturns ==
    /\ crew.pc = "process_medical_text"
    /\ doc.n = 1
    /\ doc.pc = "done"
    /\ crew' = [crew EXCEPT !.pc = "get_formatted_output", !.ner_result = doc.output]
    /\ UNCHANGED << now, ticks, calls, env_api_key, use_cache, umls_client, ret, doc,
                    enable_umls, rule_classifier, semantic, threads >>

\* get_formatted_output returns; the tasks and the crew are made
GetFormattedOutputReturns ==
    /\ crew.pc = "get_formatted_output"
    /\ doc.n = 2
    /\ doc.pc = "done"
    /\ crew' = [crew EXCEPT !.pc = "process_with_retry"]
    /\ UNCHANGED << now, ticks, calls, env_api_key, use_cache, umls_client, ret, doc,
                    enable_umls, rule_classifier, semantic, threads >>

\* an exception of process_document leaves process_medical_query_enhanced:
\* both calls are made before the try
QueryRaises ==
    /\ InProcessDocument
    /\ doc.pc = "raised"
    /\ crew' = [crew EXCEPT !.pc = "raised"]
    /\ UNCHANGED << now, ticks, calls, env_api_key, use_cache, umls_client, ret, doc,
                    enable_umls, rule_classifier, semantic, threads >>

\* one attempt of process_with_retry: crew.kickoff returns and the query
\* returns its output, or it raises, process_with_retry sleeps on a rate
\* limit and raises again, and the retry loop waits for the next attempt or
\* stops, raising RetryError into the except branch of the query
Kickoff(outcome) ==
    /\ crew.pc = "process_with_retry"
    /\ crew.attempts < MaxKickoffs
    /\ \E attempt_number \in {crew.attempts + 1} :
       \E slept \in {IF outcome = "rate limit" THEN RateLimitSleep ELSE 0} :
           IF outcome = "returns"
           THEN /\ crew' = [crew EXCEPT
                               !.pc = "done",
                               !.attempts = attempt_number,
                               !.output = SuccessOutput(crew.patient_input, crew.ner_result)]
                /\ now' = now
           ELSE IF Stops(attempt_number)
           THEN /\ crew' = [crew EXCEPT
                               !.pc = "done",
                               !.attempts = attempt_number,
                               !.failures = Append(@, outcome),
                               !.output = ErrorOutput(crew.ner_result)]
                /\ now' = now + slept
           ELSE /\ crew' = [crew EXCEPT
                               !.attempts = attempt_number,
                               !.failures = Append(@, outcome)]
                /\ now' = now + slept + RetryWait(attempt_number)
    /\ UNCHANGED << ticks, calls, env_api_key, use_cache, umls_client, ret, doc,
                    enable_umls, rule_classifier, semantic, threads >>

CrewNext ==
    \/ \E patient_input \in Queries : QueryCall(patient_input)
    \/ QueryDocumentStep
    \/ ProcessMedicalTextReturns
    \/ GetFormattedOutputReturns
    \/ QueryRaises
    \/ \E outcome \in KickoffOutcomes : Kickoff(outcome)

\* the crew's pipeline has the config NERConfig() makes
CrewInit ==
    /\ Constructed({TRUE}, {env_api_key})
    /\ NoOtherCall({})

CrewSpec == CrewInit /\ [][CrewNext]_vars

(* ------------------------------------------------------------------ *)
(* Actions of the concurrent specification: the threads of the          *)
(* Streamlit sessions call _get_tgt_url on the one client of the cached *)
(* crew, each statement that reads or writes a field of the client      *)
(* being a step                                                         *)
(* ------------------------------------------------------------------ *)

\* the client of get_crew: the API key is set and the cache is switched off
ConcurrentInit ==
    /\ Constructed({TRUE}, {env_api_key})
    /\ env_api_key
    /\ ~use_cache
    /\ NoOtherCall({})

\* thread t goes to pc, its other fields changing as in the record changes
Goto(t, pc, changes) ==
    threads' = [threads EXCEPT !.at[t] =
                   [f \in DOMAIN @ |->
                       IF f = "pc" THEN pc
                       ELSE IF f \in DOMAIN changes THEN changes[f] ELSE @[f]]]

\* a lookup of thread t asks for a service ticket: _get_tgt_url is called
TgtCall(t) ==
    /\ threads.at[t].pc = "idle"
    /\ threads.at[t].n < MaxThreadCalls
    /\ Goto(t, "test_url", [n |-> threads.at[t].n + 1, url |-> NoUrl])
    /\ UNCHANGED << now, ticks, calls, env_api_key, use_cache, umls_client, ret, doc,
                    enable_umls, rule_classifier, semantic, crew >>

\* line 267, "if self.tgt_url": the read of self.tgt_url
TgtTestUrl(t) ==
    /\ threads.at[t].pc = "test_url"
    /\ Goto(t, IF umls_client.tgt_url # NoUrl THEN "test_expiry" ELSE "post",
            [seen |-> umls_client.tgt_url])
    /\ UNCHANGED << now, ticks, calls, env_api_key, use_cache, umls_client, ret, doc,
                    enable_umls, rule_classifier, semantic, crew >>

\* line 267, "and time.time() < self.tgt_expiry": the read of self.tgt_expiry
TgtTestExpiry(t) ==
    /\ threads.at[t].pc = "test_expiry"
    /\ Goto(t, IF now < umls_client.tgt_expiry THEN "return_cached" ELSE "post",
            [expiry_from |-> threads.expiry_of])
    /\ UNCHANGED << now, ticks, calls, env_api_key, use_cache, umls_client, ret, doc,
                    enable_umls, rule_classifier, semantic, crew >>

\* line 268, "return self.tgt_url"
TgtReturnCached(t) ==
    /\ threads.at[t].pc = "return_cached"
    /\ Goto(t, "idle", [url |-> umls_client.tgt_url])
    /\ UNCHANGED << now, ticks, calls, env_api_key, use_cache, umls_client, ret, doc,
                    enable_umls, rule_classifier, semantic, crew >>

\* line 271, requests.post(self.auth_endpoint, ...): the service answers 201
\* with a new location, or the request fails and None is returned
TgtPost(t, ok) ==
    /\ threads.at[t].pc = "post"
    /\ umls_client' = IF ok THEN [umls_client EXCEPT !.tgtSeq = @ + 1] ELSE umls_client
    /\ Goto(t, IF ok THEN "store_url" ELSE "idle",
            [granted |-> IF ok THEN umls_client.tgtSeq + 1 ELSE NoUrl])
    /\ UNCHANGED << now, ticks, calls, env_api_key, use_cache, ret, doc,
                    enable_umls, rule_classifier, semantic, crew >>

\* line 274, self.tgt_url = response.headers.get('location')
TgtStoreUrl(t) ==
    /\ threads.at[t].pc = "store_url"
    /\ umls_client' = [umls_client EXCEPT !.tgt_url = threads.at[t].granted]
    /\ Goto(t, "store_expiry", << >>)
    /\ UNCHANGED << now, ticks, calls, env_api_key, use_cache, ret, doc,
                    enable_umls, rule_classifier, semantic, crew >>

\* line 277, self.tgt_expiry = time.time() + (8 * 3600)
TgtStoreExpiry(t) ==
    /\ threads.at[t].pc = "store_expiry"
    /\ umls_client' = [umls_client EXCEPT !.tgt_expiry = now + TgtLifetime]
    /\ threads' = [threads EXCEPT !.at[t].pc = "return_fresh",
                                  !.expiry_of = threads.at[t].granted]
    /\ UNCHANGED << now, ticks, calls, env_api_key, use_cache, ret, doc,
                    enable_umls, rule_classifier, semantic, crew >>

\* line 279, "return self.tgt_url"
TgtReturnFresh(t) ==
    /\ threads.at[t].pc = "return_fresh"
    /\ Goto(t, "idle", [url |-> umls_client.tgt_url])
    /\ UNCHANGED << now, ticks, calls, env_api_key, use_cache, umls_client, ret, doc,
                    enable_umls, rule_classifier, semantic, crew >>

ConcurrentNext ==
    \/ \E t \in Threads :
           \/ TgtCall(t)
           \/ TgtTestUrl(t)
           \/ TgtTestExpiry(t)
           \/ TgtReturnCached(t)
           \/ \E ok \in BOOLEAN : TgtPost(t, ok)
           \/ TgtStoreUrl(t)
           \/ TgtStoreExpiry(t)
           \/ TgtReturnFresh(t)
    \/ \E d \in TickSteps : Tick(d)

ConcurrentSpec == ConcurrentInit /\ [][ConcurrentNext]_vars

(* ------------------------------------------------------------------ *)
(* Actions of the classifier specification: one call of                 *)
(* RuleBasedClassifier.classify on a text chosen at the start           *)
(* ------------------------------------------------------------------ *)

\* words and phrases the texts to classify are made of: a listed drug, a
\* drug by its suffix, a dosage, a symptom, a listed disease, a disease by
\* its suffix, a word that is a symptom and a disease, a body part, and a
\* word of no group
ClassifierParts ==
    {"Aspirin", "atenolol", "5 mg", "fever", "infection", "arthritis",
     "depression", "neck", "xyz"}

\* the texts given to classify: a part, or two parts
ClassifierTexts ==
    ClassifierParts \cup {a \o " " \o b : a, b \in ClassifierParts}

ClassifierInit ==
    /\ Constructed({TRUE}, {env_api_key})
    /\ rule_classifier \in {ClassifyInput(text) : text \in ClassifierTexts}
    /\ NoOtherCall({"classify"})

\* one call of RuleBasedClassifier.classify
ClassifyCall ==
    /\ ~rule_classifier.called
    /\ \E rule \in {Classify(rule_classifier.text)} :
           rule_classifier' = [called |-> TRUE, text |-> rule_classifier.text,
                               entity_type |-> rule.entity_type,
                               confidence |-> rule.confidence]
    /\ UNCHANGED << now, ticks, calls, env_api_key, use_cache, umls_client, ret, doc,
                    enable_umls, semantic, crew, threads >>

ClassifierNext == ClassifyCall

ClassifierSpec == ClassifierInit /\ [][ClassifierNext]_vars

(* ------------------------------------------------------------------ *)
(* Actions of the mapping specification: one call of                    *)
(* UMLSClient._map_semantic_type_to_entity on a list of codes chosen at *)
(* the start                                                            *)
(* ------------------------------------------------------------------ *)

\* codes of semantic types: two of DISEASE, one of SYMPTOM, two of
\* MEDICATION, one of ANATOMY and one the mapping does not hold
SemanticTypeCodes == {"T047", "T033", "T184", "T121", "T109", "T017", "T999"}

\* longest list of codes given to the mapping
MaxSemanticTypes == 3

\* the lists of codes given to the mapping
SemanticTypeLists ==
    UNION {[1..n -> SemanticTypeCodes] : n \in 0..MaxSemanticTypes}

MappingInit ==
    /\ Constructed({TRUE}, {env_api_key})
    /\ env_api_key
    /\ ~use_cache
    /\ semantic \in {SemanticInput(codes) : codes \in SemanticTypeLists}
    /\ NoOtherCall({"map"})

\* one call of UMLSClient._map_semantic_type_to_entity
MapCall ==
    /\ ~semantic.called
    /\ \E mapped \in {MapSemanticTypeToEntity(semantic.semantic_types)} :
           semantic' = [called |-> TRUE, semantic_types |-> semantic.semantic_types,
                        entity_type |-> mapped.entity_type,
                        confidence |-> mapped.confidence]
    /\ UNCHANGED << now, ticks, calls, env_api_key, use_cache, umls_client, ret, doc,
                    enable_umls, rule_classifier, crew, threads >>

MappingNext == MapCall

MappingSpec == MappingInit /\ [][MappingNext]_vars

(* ------------------------------------------------------------------ *)
(* Properties of the client specification                               *)
(* ------------------------------------------------------------------ *)

\* the step is a lookup_term call
IsCall == calls' = calls + 1

\* the key of the umls_cache row of a term
CacheKey(term) == Lower(Strip(term))

\* the requests of the last call that carry a service ticket
TicketUses(wire) ==
    {i \in 1..Len(wire) : wire[i].kind \in {"search_exact", "search_approx", "detail"}}

\* the last call sent a request of one of the kinds that failed
FailedRequest(wire, kinds) ==
    \E i \in 1..Len(wire) :
        /\ wire[i].kind \in kinds
        /\ wire[i].got = 0

C2_TicketNeverReused ==
    [][IsCall =>
        \A i \in TicketUses(umls_client'.wire) :
            /\ i > 1
            /\ umls_client'.wire[i - 1].kind = "ticket"
            /\ umls_client'.wire[i - 1].got = umls_client'.wire[i].cred
            /\ umls_client'.wire[i].cred # NoTicket
            /\ umls_client'.wire[i].cred > umls_client.stSeq
            /\ \A j \in TicketUses(umls_client'.wire) :
                   j # i => umls_client'.wire[j].cred # umls_client'.wire[i].cred]_vars

\* C2, witness: the second call sent an exact search, an approximate search
\* and a concept-detail request.
C2_Witness ==
    /\ calls = 2
    /\ Cardinality(TicketUses(umls_client.wire)) = 3

\* C3 (as stated): lookup_term never raises; every call returns a result
\* record.
C3_NeverThrows == ret.called => ~ret.raised

\* C4 (as stated): when the API-key exchange, a ticket exchange or a search
\* request of a call fails, the call returns UNKNOWN, no code, confidence 0.
C4_FailureIsSafeDefault ==
    (/\ ret.called
     /\ ~ret.raised
     /\ ~ret.hung
     /\ FailedRequest(umls_client.wire, {"auth", "ticket", "search_exact", "search_approx"}))
    => /\ ret.result.entity_type = "UNKNOWN"
       /\ ret.result.umls_code = None
       /\ ret.result.confidence = 0

\* the requests of a call of one kind
RequestsOf(wire, kind) == {i \in 1..Len(wire) : wire[i].kind = kind}

\* the client holds a granting credential that has not expired
TgtUnexpired == umls_client.tgt_url # NoUrl /\ now < umls_client.tgt_expiry

\* C5: the granting credential is reused until its cached expiry passes,
\* then re-acquired.  A call exchanges the API key only when the client holds
\* no credential or the time is at or past the cached expiry; while the
\* cached credential is unexpired, every ticket exchange of the call is sent
\* to it; and a call that needs a ticket without an unexpired credential
\* starts by exchanging the API key.
C5_TgtReusedUntilExpiry ==
    [][IsCall =>
        /\ RequestsOf(umls_client'.wire, "auth") # {} => ~TgtUnexpired
        /\ TgtUnexpired =>
               \A i \in RequestsOf(umls_client'.wire, "ticket") :
                   umls_client'.wire[i].cred = umls_client.tgt_url
        /\ (~TgtUnexpired /\ umls_client'.wire # << >>) =>
               umls_client'.wire[1].kind = "auth"]_vars

\* C5, witness: the second call exchanged tickets with the credential the
\* first call acquired and sent no API-key exchange.
C5_Witness ==
    /\ calls = 2
    /\ umls_client.tgtSeq = 1
    /\ RequestsOf(umls_client.wire, "auth") = {}
    /\ RequestsOf(umls_client.wire, "ticket") # {}
    /\ \A i \in RequestsOf(umls_client.wire, "ticket") :
           umls_client.wire[i].cred = umls_client.tgt_url

\* the call of this step reads a row older than the TTL for its term
ReadsExpiredRow ==
    /\ IsCall
    /\ use_cache
    /\ ~ret'.raised
    /\ CacheKey(ret'.term) \in DOMAIN umls_client.cache
    /\ now - umls_client.cache[CacheKey(ret'.term)].timestamp >= CacheTtl

\* no row leaves the store, and a row changes only by the write of a call
\* for its key
NoSweep ==
    \A k \in DOMAIN umls_client.cache :
        /\ k \in DOMAIN umls_client'.cache
        /\ umls_client'.cache[k] # umls_client.cache[k] =>
               /\ IsCall
               /\ ret'.persisted
               /\ CacheKey(ret'.term) = k

\* C6 (as amended): a cache row aged 30 days or more is treated as absent on
\* read: a call that reads one does not return it, and sends a network
\* request when the environment holds an API key (without one it returns the
\* no-key default); the row stays in the store until a write for the same key
\* replaces it.
C6_ExpiredRowIsAbsent ==
    [][/\ ReadsExpiredRow =>
           /\ ~ret'.hit
           /\ env_api_key => umls_client'.wire # << >>
           /\ ~env_api_key => ret'.result = NoKeyResult
       /\ NoSweep]_vars

\* C6, witness: a call found the row written 30 days earlier, went to the
\* network, and its failed write left the old row in the store.
C6_Witness ==
    /\ calls = 1
    /\ ret.term = "Aspirin "
    /\ ~ret.hit
    /\ ~ret.raised
    /\ umls_client.wire # << >>
    /\ "aspirin" \in DOMAIN umls_client.cache
    /\ umls_client.cache["aspirin"].timestamp = 0

\* C6 (as stated): a call that reads a row aged 30 days or more does not
\* return it and proceeds to the network; the row stays until replaced.
C6_Original ==
    [][/\ ReadsExpiredRow =>
           /\ ~ret'.hit
           /\ umls_client'.wire # << >>
       /\ NoSweep]_vars

(* ------------------------------------------------------------------ *)
(* Properties of the pipeline specification                             *)
(* ------------------------------------------------------------------ *)

\* C7 (as stated): process_document never aborts: whatever fails -- tagger,
\* authentication, lookup, cache store -- the call returns a result with a
\* status instead of raising.
C7_DocumentNeverAborts == doc.pc # "raised"

\* C8 (as stated): the span of every entity extract_entities returns is a
\* range of the original text: 0 <= start < end <= len(original).
C8_SpanInOriginalText ==
    doc.pc = "done" =>
        \A n \in 1..Len(doc.entities) :
            /\ 0 <= doc.entities[n].start_pos
            /\ doc.entities[n].start_pos < doc.entities[n].end_pos
            /\ doc.entities[n].end_pos <= Len(doc.text)

\* the step is an iteration of _classify_entities that produced an entity
ClassifiedOne ==
    /\ doc.pc = "classify"
    /\ doc'.pc = "classify"
    /\ doc'.next = doc.next + 1
    /\ Len(doc'.classified) = Len(doc.classified) + 1

\* the classification confidence of the iteration of this step: the adopted
\* confidence of the knowledge base when a lookup was made and exceeded the
\* rule's, else the rule's
ClassificationConfidence ==
    LET rule == Classify(doc.candidates[doc.next].text)
    IN  IF calls' = calls + 1 /\ ret'.result.confidence > rule.confidence
        THEN ret'.result.confidence
        ELSE rule.confidence

\* C9: the confidence of every entity _classify_entities produces is the
\* classification confidence (the rule's, or the adopted knowledge-base
\* confidence) times the detection score of its candidate, and lies in
\* [0, 1] (here in millionths).
C9_ConfidenceIsProduct ==
    [][ClassifiedOne =>
        LET entity == doc'.classified[Len(doc'.classified)]
        IN  /\ entity.confidence = ClassificationConfidence * doc.candidates[doc.next].score
            /\ 0 <= entity.confidence
            /\ entity.confidence <= 1000 * 1000]_vars

\* C9, witness: the classified entities hold one whose confidence was adopted
\* from the knowledge base and one classified by the rules.
C9_Witness ==
    /\ \E n \in 1..Len(doc.classified) :
           /\ doc.classified[n].umls_code # None
           /\ doc.classified[n].confidence > 0
    /\ \E n \in 1..Len(doc.classified) :
           /\ doc.classified[n].umls_code = None
           /\ doc.classified[n].type = "SYMPTOM"

\* the entity is in the output of the gate with the review status
KeptAs(entity, status) ==
    \E m \in 1..Len(doc.entities) :
        doc.entities[m] = [entity EXCEPT !.metadata.review_status = status]

\* the entity is in the output of the gate
Kept(entity) ==
    \E m \in 1..Len(doc.entities) :
        /\ doc.entities[m].text = entity.text
        /\ doc.entities[m].start_pos = entity.start_pos

\* C10: the confidence gate partitions the classified entities: an entity is
\* kept as auto_accepted iff its confidence is at least 0.50, kept as
\* needs_review iff it is in [0.30, 0.50), and dropped iff it is under 0.30;
\* nothing else is in the output.
C10_GatePartition ==
    doc.pc = "done" =>
        /\ \A n \in 1..Len(doc.final_entities) :
               LET entity == doc.final_entities[n]
               IN  /\ KeptAs(entity, "auto_accepted") <=> entity.confidence >= 500 * 1000
                   /\ KeptAs(entity, "needs_review") <=>
                          (300 * 1000 <= entity.confidence /\ entity.confidence < 500 * 1000)
                   /\ ~Kept(entity) <=> entity.confidence < 300 * 1000
        /\ Len(doc.entities) =
               Cardinality({n \in 1..Len(doc.final_entities) :
                               doc.final_entities[n].confidence >= 300 * 1000})
        /\ \A m \in 1..Len(doc.entities) :
               doc.entities[m].metadata.review_status \in {"auto_accepted", "needs_review"}

\* C10, witness: a finished document with an entity accepted, one to review
\* and one dropped.
C10_Witness ==
    /\ doc.pc = "done"
    /\ \E n \in 1..Len(doc.final_entities) :
           KeptAs(doc.final_entities[n], "auto_accepted")
    /\ \E n \in 1..Len(doc.final_entities) :
           KeptAs(doc.final_entities[n], "needs_review")
    /\ \E n \in 1..Len(doc.final_entities) : ~Kept(doc.final_entities[n])


\* the surviving entities of a type, as positions in doc.entities
Surviving(type) == {n \in 1..Len(doc.entities) : doc.entities[n].type = type}

\* the surviving dosage is linked to a surviving medication
LinkedToSurvivor(d) ==
    /\ doc.entities[d].metadata.linked_medication # None
    /\ \E m \in Surviving("MEDICATION") :
           doc.entities[m].text = doc.entities[d].metadata.linked_medication

\* the dosage is a flat entry of the dosages bucket of the output
InDosagesBucket(d) ==
    \E k \in 1..Len(doc.output.entities.dosages) :
        /\ doc.output.entities.dosages[k].text = doc.entities[d].text
        /\ doc.output.entities.dosages[k].position.start = doc.entities[d].start_pos

\* the dosage is the embedded dosage string of the entry of its medication
EmbeddedInMedication(d) ==
    \E k \in 1..Len(doc.output.entities.medications) :
        /\ doc.output.entities.medications[k].name =
               doc.entities[d].metadata.linked_medication
        /\ doc.output.entities.medications[k].dosage = doc.entities[d].text

\* C11 (as stated): in the result of process_document, every surviving
\* DOSAGE entity linked to a surviving MEDICATION entity is the embedded
\* dosage of that medication's entry and is not in the dosages bucket,
\* whatever the order of the two in the entity list; only unlinked DOSAGE
\* entities are in the dosages bucket.
C11_LinkedDosageEmbedded ==
    doc.pc = "done" =>
        \A d \in Surviving("DOSAGE") :
            IF LinkedToSurvivor(d)
            THEN EmbeddedInMedication(d) /\ ~InDosagesBucket(d)
            ELSE InDosagesBucket(d)

\* the medications of the document, as positions in doc.final_entities
MedicationsOfDocument ==
    {m \in 1..Len(doc.final_entities) : doc.final_entities[m].type = "MEDICATION"}

\* |dosage.start - medication.end| for two entities of the document
LinkDistance(d, m) ==
    IF doc.final_entities[d].start_pos >= doc.final_entities[m].end_pos
    THEN doc.final_entities[d].start_pos - doc.final_entities[m].end_pos
    ELSE doc.final_entities[m].end_pos - doc.final_entities[d].start_pos

\* C12: for each DOSAGE entity, post-processing records as linked_medication
\* the text of a MEDICATION entity at the least |dosage.start -
\* medication.end| over all medications of the document when that least
\* distance is under 50, and records none when every medication is at
\* distance 50 or more or there is no medication.
C12_NearestMedicationLinked ==
    doc.pc = "done" =>
        \A d \in 1..Len(doc.final_entities) :
            doc.final_entities[d].type = "DOSAGE" =>
                IF \E m \in MedicationsOfDocument : LinkDistance(d, m) < 50
                THEN \E m \in MedicationsOfDocument :
                         /\ doc.final_entities[d].metadata.linked_medication =
                                doc.final_entities[m].text
                         /\ LinkDistance(d, m) < 50
                         /\ \A o \in MedicationsOfDocument :
                                LinkDistance(d, m) <= LinkDistance(d, o)
                ELSE doc.final_entities[d].metadata.linked_medication = None

\* C12, witness: a finished document with a dosage, a medication 50 or more
\* characters from it and a nearer one, the dosage linked to the nearer one.
C12_Witness ==
    /\ doc.pc = "done"
    /\ \E d \in 1..Len(doc.final_entities) :
           /\ doc.final_entities[d].type = "DOSAGE"
           /\ \E far, near \in MedicationsOfDocument :
                  /\ LinkDistance(d, far) >= 50
                  /\ LinkDistance(d, near) < 50
                  /\ doc.final_entities[near].text # doc.final_entities[far].text
                  /\ doc.final_entities[d].metadata.linked_medication =
                         doc.final_entities[near].text

(* ------------------------------------------------------------------ *)
(* Properties of the classifier specification                           *)
(* ------------------------------------------------------------------ *)

\* the pattern groups in the order classify is to evaluate them
GroupOrder == << "MEDICATION", "DOSAGE", "SYMPTOM", "DISEASE", "ANATOMY" >>

GroupPatterns(type) ==
    CASE type = "MEDICATION" -> MedicationPatterns
      [] type = "DOSAGE" -> DosagePatterns
      [] type = "SYMPTOM" -> SymptomPatterns
      [] type = "DISEASE" -> DiseasePatterns
      [] type = "ANATOMY" -> AnatomyPatterns

\* some pattern of the group matches somewhere in the text
GroupMatches(type, text_lower) ==
    \E k \in 1..Len(GroupPatterns(type)) : Search(GroupPatterns(type)[k], text_lower)

\* the groups with a matching pattern, as positions in GroupOrder
MatchingGroups(text) ==
    {g \in 1..Len(GroupOrder) : GroupMatches(GroupOrder[g], Lower(Strip(text)))}

\* C13: classify returns the type of the first group, in the order
\* MEDICATION, DOSAGE, SYMPTOM, DISEASE, ANATOMY, that has a matching
\* pattern, with confidence 0.85 or 0.95; a text matching a MEDICATION and a
\* DISEASE pattern is MEDICATION; a text matching no group gets (None, 0.0).
C13_FirstGroupWins ==
    rule_classifier.called =>
        LET matching == MatchingGroups(rule_classifier.text)
        IN  IF matching = {}
            THEN /\ rule_classifier.entity_type = None
                 /\ rule_classifier.confidence = 0
            ELSE /\ \E g \in matching :
                        /\ \A h \in matching : g <= h
                        /\ rule_classifier.entity_type = GroupOrder[g]
                 /\ rule_classifier.confidence \in {850, 950}
                 /\ {1, 4} \subseteq matching =>
                        rule_classifier.entity_type = "MEDICATION"

\* C13, witness: a classified text that matches a MEDICATION pattern and,
\* earlier in the text, a DISEASE pattern.
C13_Witness ==
    /\ rule_classifier.called
    /\ rule_classifier.text = "infection Aspirin"
    /\ {1, 4} \subseteq MatchingGroups(rule_classifier.text)
    /\ rule_classifier.entity_type = "MEDICATION"

(* ------------------------------------------------------------------ *)
(* Properties of the pipeline specification: classification             *)
(* ------------------------------------------------------------------ *)

\* the entity was made from a candidate of the document, with the type the
\* rule classifier gives its text, without a vocabulary code, and with the
\* rule's confidence (0.85 or 0.95) times the candidate's detection score
RuleOnlyEntity(entity, candidates) ==
    LET rule == Classify(entity.text)
    IN  /\ rule.entity_type # None
        /\ rule.confidence \in {850, 950}
        /\ entity.type = rule.entity_type
        /\ entity.umls_code = None
        /\ \E k \in 1..Len(candidates) :
               /\ candidates[k].text = entity.text
               /\ candidates[k].start = entity.start_pos
               /\ candidates[k].end = entity.end_pos
               /\ entity.confidence = rule.confidence * candidates[k].score

\* the candidates the loop of _classify_entities has been through and the
\* rule classifier gives no type have no entity
UnmatchedDropped(d) ==
    \A k \in 1..Len(d.candidates) :
        (k < d.next /\ Classify(d.candidates[k].text).entity_type = None) =>
            \A n \in 1..Len(d.classified) :
                ~(/\ d.classified[n].text = d.candidates[k].text
                  /\ d.classified[n].start_pos = d.candidates[k].start)

\* C14: with ENABLE_UMLS false, no step of a document calls lookup_term or
\* sends a request to the knowledge base, and every entity -- classified or
\* emitted -- has the rule classifier's type, no vocabulary code and the
\* rule's confidence (0.85 or 0.95) times its candidate's detection score;
\* candidates without a rule match are dropped.
C14_DisabledMeansRulesOnly ==
    [][~enable_umls =>
        /\ calls' = calls
        /\ umls_client' = umls_client
        /\ ret' = ret
        /\ \A n \in 1..Len(doc'.classified) :
               RuleOnlyEntity(doc'.classified[n], doc'.candidates)
        /\ \A n \in 1..Len(doc'.entities) :
               RuleOnlyEntity(doc'.entities[n], doc'.candidates)
        /\ UnmatchedDropped(doc')]_vars

\* C14, witness: with ENABLE_UMLS false, a finished document whose tagger
\* gave a candidate without a rule match, which was dropped, and whose
\* entities hold one of rule confidence 0.85 and one of 0.95.
C14_Witness ==
    /\ ~enable_umls
    /\ doc.pc = "done"
    /\ calls = 0
    /\ doc.tagger = "answers"
    /\ Classify(doc.candidates[1].text).entity_type = None
    /\ \E n \in 1..Len(doc.entities) :
           doc.entities[n].confidence = 850 * 850
    /\ \E n \in 1..Len(doc.entities) :
           doc.entities[n].confidence = 950 * 900

\* the candidate is the match re takes for the k-th pattern of the fixed
\* set where the candidate starts in the text, with the pattern's score
IsMatchOf(cand, k, text) ==
    LET ends == MatchEnds(Lower(text), cand.start + 1, CandidatePatterns[k].pattern, 1)
    IN  /\ ends # << >>
        /\ ends[1] = cand.end
        /\ cand.text = SubSeq(text, cand.start + 1, cand.end)
        /\ cand.score = CandidatePatterns[k].score

\* the candidates are the matches of the fixed pattern set in the text, each
\* once: every candidate is a match, every place where a pattern matches is
\* in a candidate of that pattern, and no two candidates have the same
\* lower-cased text and start
RegexCandidatesOnly(candidates, text) ==
    /\ \A n \in 1..Len(candidates) :
           \E k \in 1..Len(CandidatePatterns) : IsMatchOf(candidates[n], k, text)
    /\ \A k \in 1..Len(CandidatePatterns) :
           \A i \in 1..Len(text) :
               MatchEnds(Lower(text), i, CandidatePatterns[k].pattern, 1) # << >> =>
                   \E n \in 1..Len(candidates) :
                       /\ IsMatchOf(candidates[n], k, text)
                       /\ candidates[n].start < i
                       /\ i <= candidates[n].end
    /\ \A n, m \in 1..Len(candidates) :
           (/\ Lower(candidates[n].text) = Lower(candidates[m].text)
            /\ candidates[n].start = candidates[m].start) => n = m

\* C15: failure of the tagger is not fatal.  When ner_pipeline is None or
\* raises on the text, _extract_entity_candidates still returns, and what it
\* returns are the deduplicated matches of the fixed regex pattern set in the
\* preprocessed text; the document is then in or past the loop of
\* _classify_entities, whatever happens to the lookups of that loop.
C15_TaggerFailureFallsBack ==
    (doc.n > 0 /\ doc.tagger \in {"absent", "raises"}) =>
        /\ doc.pc \in {"classify", "waiting", "done", "raised"}
        /\ RegexCandidatesOnly(doc.candidates, doc.preprocessed)

\* C15, witness: the tagger raised on a text in which three patterns match;
\* the loop of _classify_entities is about to start on the three candidates.
C15_Witness ==
    /\ doc.tagger = "raises"
    /\ doc.pc = "classify"
    /\ doc.next = 1
    /\ Len(doc.candidates) = 3

(* ------------------------------------------------------------------ *)
(* Properties of the client specification: requests                     *)
(* ------------------------------------------------------------------ *)

\* C16 (as stated): every lookup_term call returns, whichever request the
\* remote service leaves without an answer: each outbound request carries a
\* timeout, at the end of which it counts as failed.
C16_EveryCallReturns ==
    ret.called => ~ret.hung

(* ------------------------------------------------------------------ *)
(* Properties of the concurrent specification                           *)
(* ------------------------------------------------------------------ *)

\* the thread found the credential missing or expired and is refreshing it:
\* it has sent the API-key exchange and is storing the answer
Refreshing(t) ==
    threads.at[t].pc \in {"store_url", "store_expiry", "return_fresh"}

\* C17 (as stated): refresh of the granting credential is mutually
\* exclusive: no two threads that found it missing or expired are refreshing
\* it at once, and a thread that found it unexpired read a location and an
\* expiry written by the same refresh.
C17_RefreshIsExclusive ==
    /\ \A t, u \in Threads : (Refreshing(t) /\ Refreshing(u)) => t = u
    /\ \A t \in Threads :
           threads.at[t].pc = "return_cached" =>
               threads.at[t].seen = threads.at[t].expiry_from

(* ------------------------------------------------------------------ *)
(* Properties of the client specification: order of the requests        *)
(* ------------------------------------------------------------------ *)

\* the requests of a call before the i-th, of one of the kinds
Earlier(wire, i, kinds) == {j \in 1..(i - 1) : wire[j].kind \in kinds}

\* the i-th request of a call comes where the order credential -> ticket ->
\* exact search -> [ticket -> approximate search] -> [ticket -> concept
\* detail] lets it come
InOrder(wire, i) ==
    CASE wire[i].kind = "auth" -> i = 1
      [] wire[i].kind = "ticket" ->
            \/ i = 1
            \/ wire[i - 1].kind = "auth" /\ wire[i - 1].got # NoUrl
            \/ wire[i - 1].kind \in {"search_exact", "search_approx"} /\ wire[i - 1].got # 0
      [] wire[i].kind = "search_exact" ->
            /\ i > 1
            /\ wire[i - 1].kind = "ticket"
            /\ Earlier(wire, i, {"search_exact", "search_approx", "detail"}) = {}
      [] wire[i].kind = "search_approx" ->
            \* after the exact search, answered without a result
            /\ i > 2
            /\ wire[i - 1].kind = "ticket"
            /\ wire[i - 2].kind = "search_exact"
            /\ wire[i - 2].got = 1
      [] wire[i].kind = "detail" ->
            \* after the search that returned a result
            /\ i > 2
            /\ wire[i - 1].kind = "ticket"
            /\ wire[i - 2].kind \in {"search_exact", "search_approx"}
            /\ wire[i - 2].got > 1

\* C18: the requests of one lookup_term call follow the order credential
\* (only when the client holds no unexpired one) -> ticket -> exact search
\* -> [ticket -> approximate search] -> [ticket -> concept detail].  The
\* approximate search is sent only after the exact search was answered
\* without a result, the concept detail only after a search returned a
\* result, each of the three at most once, and a failed request is the last
\* request of the call: nothing is retried.
C18_RequestOrder ==
    [][IsCall =>
        LET wire == umls_client'.wire
        IN  /\ \A i \in 1..Len(wire) : InOrder(wire, i)
            /\ RequestsOf(wire, "auth") # {} => ~TgtUnexpired
            /\ \A kind \in {"auth", "search_exact", "search_approx", "detail"} :
                   Cardinality(RequestsOf(wire, kind)) <= 1
            /\ \A i \in 1..Len(wire) : wire[i].got = 0 => i = Len(wire)]_vars

\* C18, witness: a call that sent, in this order, the API-key exchange, a
\* ticket exchange, the exact search, a ticket exchange, the approximate
\* search, a ticket exchange and the concept detail.
C18_Witness ==
    /\ calls = 1
    /\ Len(umls_client.wire) = 7
    /\ umls_client.wire[1].kind = "auth"
    /\ umls_client.wire[3].kind = "search_exact"
    /\ umls_client.wire[5].kind = "search_approx"
    /\ umls_client.wire[7].kind = "detail"
    /\ umls_client.wire[7].got = 1

(* ------------------------------------------------------------------ *)
(* Properties of the pipeline specification: rules and knowledge base   *)
(* ------------------------------------------------------------------ *)

\* the step is an iteration of the loop of _classify_entities
ClassifyStep == doc.pc = "classify" /\ doc.next <= Len(doc.candidates)

\* the step made no lookup_term call and sent nothing
NoLookup == calls' = calls /\ umls_client' = umls_client /\ ret' = ret

\* the iteration of this step appended one entity for its candidate, of the
\* type, with the classification confidence and the vocabulary code
Produced(type, confidence, code) ==
    /\ Len(doc'.classified) = Len(doc.classified) + 1
    /\ SubSeq(doc'.classified, 1, Len(doc.classified)) = doc.classified
    /\ LET entity == doc'.classified[Len(doc'.classified)]
           cand == doc.candidates[doc.next]
       IN  /\ entity.text = cand.text
           /\ entity.start_pos = cand.start
           /\ entity.end_pos = cand.end
           /\ entity.type = type
           /\ entity.confidence = confidence * cand.score
           /\ entity.umls_code = code

\* C19: a candidate for which the rule classifier returns a type with
\* confidence of 0.8 or more is accepted with that type, and no lookup is
\* made for it; a lookup is made for a candidate only when the rule
\* classifier returned no type or a confidence under 0.8, and ENABLE_UMLS is
\* on.
C19_ConfidentRuleSkipsLookup ==
    [][ClassifyStep =>
        LET rule == Classify(doc.candidates[doc.next].text)
        IN  /\ (rule.entity_type # None /\ rule.confidence >= 800) =>
                   /\ NoLookup
                   /\ Produced(rule.entity_type, rule.confidence, None)
            /\ IsCall =>
                   /\ rule.entity_type = None \/ rule.confidence < 800
                   /\ enable_umls
                   /\ ret'.term = doc.candidates[doc.next].text]_vars

\* C19, witness: the first candidate, without a rule match, was looked up
\* and the second was accepted on the rule's answer without a lookup.
C19_Witness ==
    /\ doc.pc = "classify"
    /\ doc.next = 3
    /\ calls = 1
    /\ ret.term = doc.candidates[1].text
    /\ Len(doc.classified) = 2
    /\ doc.classified[1].umls_code # None
    /\ doc.classified[2].text = doc.candidates[2].text
    /\ doc.classified[2].type = Classify(doc.candidates[2].text).entity_type

\* C20: when the knowledge base is consulted for a candidate and answers,
\* its type, confidence and vocabulary code are adopted iff its confidence
\* is strictly greater than the rule's (0.0 without a rule match); otherwise
\* the rule's type and confidence are kept, with no vocabulary code; and a
\* candidate that ends without a type, looked up or not, produces no entity.
C20_AdoptIffStrictlyGreater ==
    [][ClassifyStep =>
        LET rule == Classify(doc.candidates[doc.next].text)
        IN  IF IsCall
            THEN (ret'.raised \/ ret'.hung) \/
                 IF ret'.result.confidence > rule.confidence
                 THEN Produced(ret'.result.entity_type, ret'.result.confidence,
                               ret'.result.umls_code)
                 ELSE IF rule.entity_type # None
                 THEN Produced(rule.entity_type, rule.confidence, None)
                 ELSE doc'.classified = doc.classified /\ doc'.next = doc.next + 1
            ELSE rule.entity_type = None =>
                     doc'.classified = doc.classified /\ doc'.next = doc.next + 1]_vars

\* C20, witness: two candidates were looked up; the answer for the first had
\* confidence 0 and made no entity, the answer for the second was adopted
\* with its vocabulary code.
C20_Witness ==
    /\ doc.pc = "classify"
    /\ doc.next = 3
    /\ calls = 2
    /\ Len(doc.classified) = 1
    /\ doc.classified[1].text = doc.candidates[2].text
    /\ doc.classified[1].umls_code # None
    /\ doc.classified[1].type = ret.result.entity_type

(* ------------------------------------------------------------------ *)
(* Properties of the mapping specification                              *)
(* ------------------------------------------------------------------ *)

\* how many of the codes given to the mapping are codes of the type
Recognized(type) ==
    Cardinality({i \in 1..Len(semantic.semantic_types) :
                    semantic.semantic_types[i] \in SemanticCodes(type)})

\* C21: every recognized code adds 0.9 to the bucket of its type; the call
\* returns a bucket of the highest weight with min(weight, 0.95), which is
\* 0.9 for one recognized code in that bucket and 0.95 for two or more; with
\* no recognized code (the empty list included) it returns UNKNOWN at 0.5.
C21_AdditiveScoring ==
    semantic.called =>
        IF \A i \in 1..Len(ScoreOrder) : Recognized(ScoreOrder[i]) = 0
        THEN /\ semantic.entity_type = "UNKNOWN"
             /\ semantic.confidence = 500
        ELSE \E i \in 1..Len(ScoreOrder) :
                 /\ semantic.entity_type = ScoreOrder[i]
                 /\ \A j \in 1..Len(ScoreOrder) :
                        Recognized(ScoreOrder[j]) <= Recognized(ScoreOrder[i])
                 /\ semantic.confidence = Min(900 * Recognized(ScoreOrder[i]), 950)
                 /\ Recognized(ScoreOrder[i]) = 1 => semantic.confidence = 900
                 /\ Recognized(ScoreOrder[i]) >= 2 => semantic.confidence = 950

\* C21, witness: two codes of MEDICATION outweigh one of DISEASE
C21_Witness ==
    /\ semantic.called
    /\ semantic.semantic_types = << "T047", "T121", "T109" >>
    /\ semantic.entity_type = "MEDICATION"
    /\ semantic.confidence = 950

(* ------------------------------------------------------------------ *)
(* Properties of the client specification: the cache                    *)
(* ------------------------------------------------------------------ *)

\* the call of this step went past the search: it was not answered by the
\* cache, found an API key, and _search_umls_concept returned to it
ObtainedSearchOutcome ==
    /\ IsCall
    /\ env_api_key
    /\ ~ret'.raised
    /\ ~ret'.hung
    /\ ~ret'.hit

\* the step left in the table the row of the call's term, holding the
\* result the call returned, and no other row changed
RowWritten ==
    LET key == CacheKey(ret'.term)
    IN  /\ DOMAIN umls_client'.cache = DOMAIN umls_client.cache \cup {key}
        /\ umls_client'.cache[key] = [result |-> ret'.result, timestamp |-> now]
        /\ \A k \in DOMAIN umls_client.cache :
               k # key => umls_client'.cache[k] = umls_client.cache[k]

\* the table has one row per lower-cased term
OneRowPerTerm(cache) ==
    \A k1, k2 \in DOMAIN cache : Lower(k1) = Lower(k2) => k1 = k2

\* C22 (as amended): with the cache enabled, a lookup that obtained a search
\* outcome and whose INSERT succeeded has written its result, before
\* returning, to the row of the lower-cased and stripped term, replacing the
\* row that was there; a lookup whose INSERT failed returns the error result
\* and, like every other call, leaves the table as it was.  The table holds
\* one row per lower-cased term, and terms that differ only in letter case
\* share it.
C22_UpsertUnderLoweredTerm ==
    [][(IsCall /\ use_cache) =>
        /\ IF ObtainedSearchOutcome /\ ~ret'.store_error
           THEN RowWritten
           ELSE umls_client'.cache = umls_client.cache
        /\ OneRowPerTerm(umls_client'.cache)
        /\ \A k \in DOMAIN umls_client'.cache : k = CacheKey(k)]_vars

\* C22, witness: "ASPIRIN " was looked up on the network after the row of
\* "aspirin" had passed its TTL, and its result replaced that row: the table
\* holds the one row
C22_Witness ==
    /\ use_cache
    /\ calls = 2
    /\ ticks = 1
    /\ now = StartTime + CacheTtl
    /\ ret.term = "ASPIRIN "
    /\ ~ret.hit
    /\ ~ret.raised
    /\ ~ret.hung
    /\ ret.result.entity_type = "MEDICATION"
    /\ DOMAIN umls_client.cache = {"aspirin"}
    /\ umls_client.cache["aspirin"] = [result |-> ret.result, timestamp |-> now]

\* C22 (as stated): with the cache enabled, every lookup that obtained a
\* search outcome has written its result to the row of its term before
\* returning.
C22_Original ==
    [][(use_cache /\ ObtainedSearchOutcome) => RowWritten]_vars

(* ------------------------------------------------------------------ *)
(* Properties of the pipeline specification: candidates                 *)
(* ------------------------------------------------------------------ *)

\* the candidates of the document in source order, before the duplicates
\* are removed: the tagger's, then those of the patterns in their order
SourceCandidates ==
    doc.tagged \o PatternCandidates(doc.preprocessed, Lower(doc.preprocessed), 1)

\* the deduplication key of a candidate
DedupKey(cand) == << Lower(cand.text), cand.start >>

\* the places, in a list of candidates, of the first candidate of each key
FirstOfKey(candidates) ==
    {n \in 1..Len(candidates) :
        \A m \in 1..(n - 1) : DedupKey(candidates[m]) # DedupKey(candidates[n])}

\* the i-th smallest of a set of places
Nth(places, i) ==
    CHOOSE n \in places : Cardinality({m \in places : m <= n}) = i

\* C23: deduplication keeps, for each key (lower-cased text, start), the
\* first candidate in source order and no other, in the order of the source,
\* so that a duplicate keeps the score of the earlier source; candidates of
\* different keys are all kept.  (Seen when _extract_entity_candidates has
\* returned: the candidates do not change afterwards.)
C23_FirstOfKeyKept ==
    (doc.pc = "classify" /\ doc.next = 1) =>
        \E source \in {SourceCandidates} :
            \E first \in {FirstOfKey(source)} :
                /\ Len(doc.candidates) = Cardinality(first)
                /\ \A i \in 1..Len(doc.candidates) :
                       doc.candidates[i] = source[Nth(first, i)]
                /\ \A n \in 1..Len(source) :
                       \E i \in 1..Len(doc.candidates) :
                           DedupKey(doc.candidates[i]) = DedupKey(source[n])
                /\ \A i, j \in 1..Len(doc.candidates) :
                       DedupKey(doc.candidates[i]) = DedupKey(doc.candidates[j]) => i = j

\* C23, witness: the tagger gave "fever" where a pattern matches "Fever";
\* the one candidate kept is the tagger's, with the tagger's score
C23_Witness ==
    /\ doc.pc = "classify"
    /\ doc.next = 1
    /\ doc.text = "Fever"
    /\ \E source \in {SourceCandidates} :
           Len(source) = 2 /\ source[2].text = "Fever" /\ source[2].score = 850
    /\ doc.candidates = << [text |-> "fever", start |-> 0, end |-> 5, score |-> 300] >>

(* ------------------------------------------------------------------ *)
(* Properties of the pipeline specification: the normalizer             *)
(* ------------------------------------------------------------------ *)

\* C24 (as stated): the text _preprocess_text returns is never shorter than
\* the text it was given, runs of whitespace included.
C24_NeverShorter ==
    doc.n > 0 => Len(doc.preprocessed) >= Len(doc.text)

(* ------------------------------------------------------------------ *)
(* Properties of the crew specification                                 *)
(* ------------------------------------------------------------------ *)

\* C25: the retry of the reasoning layer is bounded.  For one query
\* crew.kickoff is called at most 3 times, and when every attempt has failed
\* the query has returned a result of status "error" that carries the NER
\* extraction and requires_human_review true: the exception is not
\* propagated.
C25_BoundedRetry ==
    /\ crew.attempts <= 3
    /\ (crew.attempts = 3 /\ Len(crew.failures) = 3) =>
           /\ crew.pc = "done"
           /\ crew.output.status = "error"
           /\ crew.output.ner_extraction = crew.ner_result
           /\ crew.output.ner_extraction.status = "success"
           /\ crew.output.requires_human_review = TRUE

\* C25, witness: the third attempt failed like the two before it, on the
\* rate limit, for a query with one entity
C25_Witness ==
    /\ crew.pc = "done"
    /\ crew.failures = << "rate limit", "error", "rate limit" >>
    /\ crew.output.status = "error"
    /\ crew.output.ner_extraction.total_entities = 1

(* ------------------------------------------------------------------ *)
(* Properties of the client specification: failures in the cache        *)
(* ------------------------------------------------------------------ *)

\* the requests of a call ended, before any search had found a concept,
\* with the failure of the API-key exchange, of a ticket exchange or of a
\* search: _search_umls_concept returned []
SearchFailed(wire) ==
    /\ wire # << >>
    /\ wire[Len(wire)].kind \in {"auth", "ticket", "search_exact", "search_approx"}
    /\ wire[Len(wire)].got = 0
    /\ \A i \in 1..Len(wire) :
           wire[i].kind \in {"search_exact", "search_approx"} => wire[i].got <= 1

\* the row lookup_term writes for a search without results
NoResultsRow(clock) == [result |-> NoResultsResult, timestamp |-> clock]

\* the call of this step had its search fail and returned the "no_results"
\* result, which is now the row of its term
FailureStored ==
    /\ ret'.result = NoResultsResult
    /\ CacheKey(ret'.term) \in DOMAIN umls_client'.cache
    /\ umls_client'.cache[CacheKey(ret'.term)] = NoResultsRow(now)

\* the call before this step's stored the "no_results" result of a failed
\* search, and this step's is for the same term, within the TTL
RepeatsStoredFailure ==
    /\ ret.called
    /\ ~ret.raised
    /\ ~ret.hung
    /\ ~ret.hit
    /\ SearchFailed(umls_client.wire)
    /\ ret.result = NoResultsResult
    /\ CacheKey(ret'.term) = CacheKey(ret.term)
    /\ now - ret.at < CacheTtl

\* the call of this step was answered with the "no_results" row, no request
\* sent
AnsweredWithFailure ==
    /\ umls_client'.wire = << >>
    /\ ret'.hit
    /\ ret'.result = NoResultsResult

ClassifiedMedications(text) ==
    {m \in MedicationsOfDocument : doc.final_entities[m].text = text}

\* C27: dosages are linked before the confidence gate, to any classified
\* MEDICATION entity.  A surviving DOSAGE entity that is linked names a
\* medication of the document before the gate; when the gate has dropped
\* every medication of that name, the dosage is in the dosages bucket and
\* the output has no medication entry of that name to carry it.
C27_LinkedToDroppedMedication ==
    doc.pc = "done" =>
        \A d \in Surviving("DOSAGE") :
            \E linked_med \in {doc.entities[d].metadata.linked_medication} :
                linked_med # None =>
                    /\ ClassifiedMedications(linked_med) # {}
                    /\ ~LinkedToSurvivor(d) =>
                           /\ InDosagesBucket(d)
                           /\ KeyIndex(doc.output.entities.medications, linked_med) = {}

\* C27, witness: a surviving dosage is linked to a medication whose
\* confidence is under the review threshold, and is in the dosages bucket
C27_Witness ==
    /\ doc.pc = "done"
    /\ \E d \in Surviving("DOSAGE") :
           /\ doc.entities[d].metadata.linked_medication # None
           /\ ~LinkedToSurvivor(d)
           /\ \A m \in ClassifiedMedications(doc.entities[d].metadata.linked_medication) :
                  doc.final_entities[m].confidence < REVIEW_THRESHOLD * 1000
           /\ InDosagesBucket(d)

\* the surviving MEDICATION entities of a text, and the last of them
SurvivingMedications(text) ==
    {m \in Surviving("MEDICATION") : doc.entities[m].text = text}

LastMedication(text) ==
    CHOOSE m \in SurvivingMedications(text) : \A o \in SurvivingMedications(text) : o <= m

\* the surviving DOSAGE entities linked to the text that come, in entity
\* order, after the last surviving MEDICATION entity of the text
DosagesAfterLast(text) ==
    {d \in Surviving("DOSAGE") :
        /\ doc.entities[d].metadata.linked_medication = text
        /\ d > LastMedication(text)}

\* C28: the medications bucket has one entry per distinct text of the
\* surviving MEDICATION entities.  The entry of a text is that of the last
\* surviving MEDICATION entity of the text, and its dosage is none but for
\* the dosages linked to the text that come after that entity: a dosage
\* attached before is lost.  statistics.medications counts the entries.
C28_OneEntryPerText ==
    doc.pc = "done" =>
        \E medications \in {doc.output.entities.medications} :
            /\ \A k, l \in 1..Len(medications) :
                   medications[k].name = medications[l].name => k = l
            /\ {medications[k].name : k \in 1..Len(medications)} =
                   {doc.entities[m].text : m \in Surviving("MEDICATION")}
            /\ doc.output.statistics.medications = Len(medications)
            /\ Len(medications) <= Cardinality(Surviving("MEDICATION"))
            /\ \A k \in 1..Len(medications) :
                   \E last \in {LastMedication(medications[k].name)} :
                   \E after \in {DosagesAfterLast(medications[k].name)} :
                       /\ medications[k].position =
                              [start |-> doc.entities[last].start_pos,
                               end   |-> doc.entities[last].end_pos]
                       /\ medications[k].confidence = doc.entities[last].confidence
                       /\ IF after = {}
                          THEN medications[k].dosage = None
                          ELSE \E d \in after :
                                   /\ \A o \in after : o <= d
                                   /\ medications[k].dosage = doc.entities[d].text

\* C28, witness: "5 mg" was attached to the entry of the first "aspirin" and
\* lost to the second: three MEDICATION entities, two entries, no dosage in
\* them or in the dosages bucket
C28_Witness ==
    /\ doc.pc = "done"
    /\ doc.text = "aspirin 5mg, aspirin"
    /\ Cardinality(SurvivingMedications("aspirin")) = 2
    /\ Cardinality(Surviving("MEDICATION")) = 3
    /\ doc.output.statistics.medications = 2
    /\ doc.output.total_entities = 4
    /\ \E d \in Surviving("DOSAGE") :
           /\ doc.entities[d].metadata.linked_medication = "aspirin"
           /\ \E m \in SurvivingMedications("aspirin") : m < d
           /\ ~InDosagesBucket(d)
    /\ \A k \in 1..Len(doc.output.entities.medications) :
           doc.output.entities.medications[k].dosage = None

(* ------------------------------------------------------------------ *)
(* Properties of the client specification: the API key                  *)
(* ------------------------------------------------------------------ *)

\* C29: with no API key in the environment, a lookup_term call that finds
\* no live row in the cache returns UNKNOWN, no code, confidence 0.0; it
\* sends no request, writes no row and leaves the credential state as it
\* was -- whether or not the client was constructed with a key.
C29_NoKeyInEnvironment ==
    [][(IsCall /\ ~env_api_key /\ ~ret'.raised /\ ~ret'.hit) =>
        /\ ~ret'.hung
        /\ ret'.result.entity_type = "UNKNOWN"
        /\ ret'.result.umls_code = None
        /\ ret'.result.confidence = 0
        /\ umls_client'.wire = << >>
        /\ umls_client'.cache = umls_client.cache
        /\ umls_client'.tgt_url = umls_client.tgt_url
        /\ umls_client'.tgt_expiry = umls_client.tgt_expiry
        /\ umls_client'.tgtSeq = umls_client.tgtSeq
        /\ umls_client'.stSeq = umls_client.stSeq]_vars

\* C29, witness: a client constructed with a key, its cache on and holding
\* an expired row of the term, was asked for the term with no key in the
\* environment
C29_Witness ==
    /\ ~env_api_key
    /\ umls_client.api_key
    /\ use_cache
    /\ ret.called
    /\ ~ret.raised
    /\ ~ret.hit
    /\ ret.term = "Aspirin "
    /\ ret.result = NoKeyResult
    /\ "aspirin" \in DOMAIN umls_client.cache
    /\ now - umls_client.cache["aspirin"].timestamp >= CacheTtl

(* ------------------------------------------------------------------ *)
\* the review statuses the statistics count
ReviewStatuses == {"auto_accepted", "needs_review"}

\* the confidence bins of the summary an entity of that confidence, in
\* millionths, falls in: high from 0.9, medium in [0.7, 0.9), low under 0.7
BinsOf(confidence) ==
    {bin \in {"high", "medium", "low"} :
        \/ bin = "high" /\ confidence >= 900 * 1000
        \/ bin = "medium" /\ 700 * 1000 <= confidence /\ confidence < 900 * 1000
        \/ bin = "low" /\ confidence < 700 * 1000}

\* the entities of the finished document in that bin
InBin(bin) ==
    {n \in 1..Len(doc.entities) : bin \in BinsOf(doc.entities[n].confidence)}

\* the entities of the finished document with that review status
WithStatus(status) ==
    {n \in 1..Len(doc.entities) : doc.entities[n].metadata.review_status = status}

\* C30: in every result of process_document the counts agree with the list
\* of surviving entities: total_entities is its length, auto_accepted +
\* needs_review = total_entities, high + medium + low = total_entities, and
\* every surviving entity has exactly one of the two review statuses and is
\* in exactly one confidence bin, each count being the size of its class.
C30_CountsConsistent ==
    doc.pc = "done" =>
        /\ doc.output.total_entities = Len(doc.entities)
        /\ doc.output.statistics.auto_accepted + doc.output.statistics.needs_review
               = doc.output.total_entities
        /\ doc.output.confidence_summary.high + doc.output.confidence_summary.medium
               + doc.output.confidence_summary.low = doc.output.total_entities
        /\ \A n \in 1..Len(doc.entities) :
               /\ doc.entities[n].metadata.review_status \in ReviewStatuses
               /\ Cardinality(BinsOf(doc.entities[n].confidence)) = 1
        /\ doc.output.statistics.auto_accepted = Cardinality(WithStatus("auto_accepted"))
        /\ doc.output.statistics.needs_review = Cardinality(WithStatus("needs_review"))
        /\ doc.output.confidence_summary.high = Cardinality(InBin("high"))
        /\ doc.output.confidence_summary.medium = Cardinality(InBin("medium"))
        /\ doc.output.confidence_summary.low = Cardinality(InBin("low"))

\* C30, witness: a finished document whose surviving entities have both
\* review statuses and fall in more than one confidence bin, another entity
\* having been dropped by the gate
C30_Witness ==
    /\ doc.pc = "done"
    /\ doc.output.statistics.auto_accepted > 0
    /\ doc.output.statistics.needs_review > 0
    /\ Cardinality({bin \in {"high", "medium", "low"} : InBin(bin) # {}}) >= 2
    /\ Len(doc.final_entities) > Len(doc.entities)

====
